---- MODULE Spec2Model ----
(***************************************************************************)
(* A model of beniget's DefUseChains (src/beniget/beniget.py): the         *)
(* def-use chain analyzer walking the AST of one module.                   *)
(*                                                                         *)
(* The AST is a value of nested records; every node carries a unique       *)
(* `uid` (the uid of a child is 10 * uid of its parent + its slot).  The   *)
(* analyzer object is the record `duc`; Python objects that are shared by  *)
(* reference (definition frames, ordered sets of Defs) live in heaps       *)
(* inside `duc` and are referred to by their index.  The Python call       *)
(* stack of the visitor is the sequence `kont`.                            *)
(***************************************************************************)
EXTENDS Integers, Sequences, FiniteSets, TLC

VARIABLES
    module,   \* the AST handed to visit_Module (under SpecImports: the arguments of a
              \* call of parse_import)
    duc,      \* the DefUseChains instance (and the Def / dict / set objects it owns;
              \* under SpecImports: what parse_import returns)
    kont      \* the call stack: innermost pending step at the head (under SpecTwice the
              \* frame of the caller of the two runs is at its bottom)

vars == <<module, duc, kont>>

-----------------------------------------------------------------------------
(* Bounds of the model.                                                    *)

\* longest statement list of the module body
MaxModuleBody == 3

-----------------------------------------------------------------------------
(* AST nodes.                                                              *)

None == [k |-> "None"]

Name(u, id, ctx) == [k |-> "Name", uid |-> u, id |-> id, ctx |-> ctx]

Constant(u) == [k |-> "Constant", uid |-> u]

\* target := value
NamedExpr(u, id, value) ==
    [k |-> "NamedExpr", uid |-> u, target |-> Name(10 * u + 1, id, "Store"), value |-> value]

\* await value, yield value
Await(u, value) == [k |-> "Await", uid |-> u, value |-> value]

Yield(u, value) == [k |-> "Yield", uid |-> u, value |-> value]

\* func(args...)
Call(u, func, args) == [k |-> "Call", uid |-> u, func |-> func, args |-> args]

\* lambda <args>: body
Lambda(u, args, body) == [k |-> "Lambda", uid |-> u, args |-> args, body |-> body]

\* one `for target in iter if ifs...` clause
comprehension(u, target, iter, ifs) ==
    [k |-> "comprehension", uid |-> u, target |-> target, iter |-> iter, ifs |-> ifs]

ListComp(u, elt, generators) ==
    [k |-> "ListComp", uid |-> u, elt |-> elt, generators |-> generators]

Expr(u, value) == [k |-> "Expr", uid |-> u, value |-> value]

Assign(u, id, value) ==
    [k |-> "Assign", uid |-> u, target |-> Name(10 * u + 1, id, "Store"), value |-> value]

AugAssign(u, id, value) ==
    [k |-> "AugAssign", uid |-> u, target |-> Name(10 * u + 1, id, "Store"), value |-> value]

AnnAssign(u, id, annotation, value) ==
    [k |-> "AnnAssign", uid |-> u, target |-> Name(10 * u + 1, id, "Store"),
     annotation |-> annotation, value |-> value]

Return(u, value) == [k |-> "Return", uid |-> u, value |-> value]

Break(u) == [k |-> "Break", uid |-> u]

Continue(u) == [k |-> "Continue", uid |-> u]

Raise(u, exc) == [k |-> "Raise", uid |-> u, exc |-> exc]

Global(u, names) == [k |-> "Global", uid |-> u, names |-> names]

Nonlocal(u, names) == [k |-> "Nonlocal", uid |-> u, names |-> names]

\* name is the dotted path as the sequence of its components, asname is "" for None
alias(u, name, asname) == [k |-> "alias", uid |-> u, name |-> name, asname |-> asname]

\* import name
Import(u, name) == [k |-> "Import", uid |-> u, names |-> <<alias(10 * u + 1, name, "")>>]

\* from module import name    (level 0)
ImportFrom(u, mod, name) ==
    [k |-> "ImportFrom", uid |-> u, module |-> mod, level |-> 0,
     names |-> <<alias(10 * u + 1, name, "")>>]

If(u, test, body, orelse) ==
    [k |-> "If", uid |-> u, test |-> test, body |-> body, orelse |-> orelse]

While(u, test, body, orelse) ==
    [k |-> "While", uid |-> u, test |-> test, body |-> body, orelse |-> orelse]

For(u, id, iter, body, orelse) ==
    [k |-> "For", uid |-> u, target |-> Name(10 * u + 1, id, "Store"), iter |-> iter,
     body |-> body, orelse |-> orelse]

\* except type as name: body   (name is a Name in Store context, or None)
ExceptHandler(u, type, name, body) ==
    [k |-> "ExceptHandler", uid |-> u, type |-> type, name |-> name, body |-> body]

Try(u, body, handlers, orelse, finalbody) ==
    [k |-> "Try", uid |-> u, body |-> body, handlers |-> handlers, orelse |-> orelse,
     finalbody |-> finalbody]

\* def name(args): body      (args are Names in Param context)
FunctionDef(u, name, args, body, returns) ==
    [k |-> "FunctionDef", uid |-> u, name |-> name, args |-> args, body |-> body,
     returns |-> returns]

\* class name(bases): body
ClassDef(u, name, bases, body) ==
    [k |-> "ClassDef", uid |-> u, name |-> name, bases |-> bases, body |-> body]

Module(body) == [k |-> "Module", uid |-> 0, body |-> body]

-----------------------------------------------------------------------------
(* Small helpers on sequences and functions.                               *)

Range(f) == {f[i] : i \in DOMAIN f}

Last(s) == s[Len(s)]

Front(s) == SubSeq(s, 1, Len(s) - 1)

\* the element a Python negative index denotes: s[-1] is PyAt(s, -1)
PyAt(s, i) == s[Len(s) + 1 + i]

\* a dict with no key
EmptyDict == [n \in {} |-> 0]

\* d with d[key] = val
Put(d, key, val) == (key :> val) @@ d

Min(a, b) == IF a < b THEN a ELSE b

Max(a, b) == IF a > b THEN a ELSE b

\* the position a Python slice bound denotes in a list of length n
SliceBound(n, i) == IF i < 0 THEN Max(0, n + i) ELSE Min(i, n)

\* s[a:b] of Python
PySlice(s, a, b) == SubSeq(s, SliceBound(Len(s), a) + 1, SliceBound(Len(s), b))

\* s[a:] of Python
PySliceFrom(s, a) == SubSeq(s, SliceBound(Len(s), a) + 1, Len(s))

\* reversed(s)
Reverse(s) == [i \in 1..Len(s) |-> s[Len(s) + 1 - i]]

RECURSIVE SeqOfSet(_)
\* the elements of a finite set in some fixed order
SeqOfSet(S) ==
    IF S = {} THEN <<>>
    ELSE LET x == CHOOSE y \in S : TRUE IN <<x>> \o SeqOfSet(S \ {x})

-----------------------------------------------------------------------------
(* Def objects.  A Def is identified by the node it wraps and, where the   *)
(* code creates more than one Def for a node, by a serial number `v`.      *)

\* the names of the builtins table
Builtins == {"len"}

\* Def.name() of the Def wrapping an AST node
NodeName(node) ==
    CASE node.k \in {"FunctionDef", "ClassDef"} -> node.name
      [] node.k = "Name" -> node.id
      [] node.k = "alias" -> IF node.asname # "" THEN node.asname ELSE node.name[1]
      [] OTHER -> node.k

\* Def(node) for an AST node
Def(node) == [uid |-> node.uid, kind |-> node.k, name |-> NodeName(node), v |-> 0]

\* the second Def the code can create for one Name node (compute_defs' placeholder)
Undef(node) == [uid |-> node.uid, kind |-> node.k, name |-> NodeName(node), v |-> 1]

\* Def(v) for a value of the builtins table; `name` is the key of the table
BuiltinDef(key) == [uid |-> -1, kind |-> "builtin", name |-> key, v |-> 0]

\* Def("__class__"), created by the v-th visit of the class
ClassCellDef(node, v) == [uid |-> node.uid, kind |-> "str", name |-> "__class__", v |-> v]

\* Def.name(): a Def that wraps no AST node answers with the type of what it wraps
DefName(d) ==
    CASE d.kind = "builtin" -> "builtin_function_or_method"
      [] d.kind = "str" -> "str"
      [] OTHER -> d.name

\* isinstance(d.node, ast.AST), were it to hold of every Def
IsAnyDef(d) == TRUE

\* isinstance(d.node, ast.AST)
IsASTDef(d) == d.kind \notin {"builtin", "str"}

\* Def.__init__: a Def starts with no user and islive = True
NewDef(s, d) ==
    IF d \in DOMAIN s.users THEN s
    ELSE [s EXCEPT !.users = Put(@, d, {}), !.islive = Put(@, d, TRUE)]

\* Def.add_user: d._users.add(user)
add_user(s, d, user) == [s EXCEPT !.users[d] = @ \cup {user}]

\* self.chains.setdefault(node, Def(node))
chains_setdefault(s, node) ==
    IF node.uid \in DOMAIN s.chains THEN s
    ELSE [NewDef(s, Def(node)) EXCEPT !.chains = Put(@, node.uid, Def(node))]

\* self.locals[scope] of the defaultdict
LocalsOf(s, scope) == IF scope.uid \in DOMAIN s.locals THEN s.locals[scope.uid] ELSE <<>>

\* self.locals[scope].append(d), were it left out in dead code as set_definition is
locals_append_live(s, scope, d) ==
    IF s._deadcode > 0 THEN s
    ELSE [s EXCEPT !.locals = Put(@, scope.uid, Append(LocalsOf(s, scope), d))]

\* self.locals[scope].append(d)
locals_append(s, scope, d) ==
    [s EXCEPT !.locals = Put(@, scope.uid, Append(LocalsOf(s, scope), d))]

\* self.warn(msg, node): the side channel is a list of messages
warn(s, msg, node) == [s EXCEPT !.warnings = Append(@, [msg |-> msg, uid |-> node.uid])]

unbound_identifier(s, name, node) == warn(s, "unbound identifier", node)

-----------------------------------------------------------------------------
(* Definition frames: dicts from a name to an ordered_set of Defs.  Both   *)
(* are objects: a copy of a frame shares its sets with the original.       *)

\* ordered_set(elems): a new set object; its reference is Len(osets) afterwards
new_oset(s, elems) == [s EXCEPT !.osets = Append(@, elems)]

\* defaultdict(ordered_set): a new empty frame; its reference is Len(frames) afterwards
new_frame(s, dict) == [s EXCEPT !.frames = Append(@, dict)]

\* the names of a frame
Keys(s, f) == DOMAIN s.frames[f]

\* definitions.get(name, ()): the Defs a frame holds for a name
Get(s, f, name) == IF name \in Keys(s, f) THEN s.osets[s.frames[f][name]] ELSE {}

\* the reference of the frame self._definitions[index], index a Python index (0, -1, -2)
FrameAt(s, index) ==
    IF index >= 0 THEN s._definitions[index + 1] ELSE PyAt(s._definitions, index)

\* self._definitions[:index], index as above
FramesBefore(s, index) ==
    IF index >= 0 THEN SubSeq(s._definitions, 1, index)
    ELSE SubSeq(s._definitions, 1, Len(s._definitions) + index)

\* the frame object f with f[name] = a new ordered_set(dnodes)
frame_assign(s, f, name, dnodes) ==
    LET s1 == new_oset(s, dnodes)
    IN [s1 EXCEPT !.frames[f] = Put(@, name, Len(s1.osets))]

\* dict.copy() of frame f: a new dict holding the same set objects
frame_copy(s, f) == new_frame(s, s.frames[f])

\* dict.clear() of frame f
frame_clear(s, f) == [s EXCEPT !.frames[f] = EmptyDict]

\* the Defs d of the frame entry that set_definition leaves alive: builtins and
\* the class cell, the Defs installed again, and the Defs an earlier frame holds
SurvivesSet(s, d, name, dnodes, index) ==
    \/ ~IsASTDef(d)
    \/ d \in dnodes
    \/ \E i \in DOMAIN FramesBefore(s, index) : d \in Get(s, FramesBefore(s, index)[i], name)

\* set_definition, were no Def of the entry marked: islive stays as it is
set_definition_keeping(s, name, dnodes, index) ==
    IF s._deadcode > 0 THEN s ELSE frame_assign(s, FrameAt(s, index), name, dnodes)

\* set_definition(name, dnode_or_dnodes, index): dnodes is the set of the Defs given
set_definition(s, name, dnodes, index) ==
    IF s._deadcode > 0 THEN s
    ELSE LET f == FrameAt(s, index)
             killed == {d \in Get(s, f, name) : ~SurvivesSet(s, d, name, dnodes, index)}
             s1 == [s EXCEPT !.islive = [d \in DOMAIN @ |-> IF d \in killed THEN FALSE ELSE @[d]]]
         IN frame_assign(s1, f, name, dnodes)

\* add_to_definition(definition, name, dnode_or_dnodes), definition the frame object f:
\* definition[name] makes a new set when the key is missing, add/update change it in place
add_to_definition(s, f, name, dnodes) ==
    IF name \in Keys(s, f)
    THEN [s EXCEPT !.osets[s.frames[f][name]] = @ \cup dnodes]
    ELSE frame_assign(s, f, name, dnodes)

\* extend_definition, were it to write in dead code too
extend_definition_always(s, name, dnodes) ==
    add_to_definition(s, FrameAt(s, -1), name, dnodes)

\* extend_definition(name, dnode_or_dnodes)
extend_definition(s, name, dnodes) ==
    IF s._deadcode > 0 THEN s
    ELSE add_to_definition(s, FrameAt(s, -1), name, dnodes)

\* self.locals[self.module].append / extend: the Defs in the order given
extend_global(s, name, dnodes) ==
    IF s._deadcode > 0 THEN s
    ELSE LET s1 == IF name \notin Keys(s, FrameAt(s, 0))
                   THEN [s EXCEPT !.locals =
                            Put(@, 0, LocalsOf(s, [uid |-> 0]) \o SeqOfSet(dnodes))]
                   ELSE s
         IN add_to_definition(s1, FrameAt(s1, 0), name, dnodes)

set_or_extend_global(s, name, dnode) ==
    IF s._deadcode > 0 THEN s
    ELSE LET s1 == IF name \notin Keys(s, FrameAt(s, 0))
                   THEN locals_append(s, [uid |-> 0], dnode)
                   ELSE s
         IN add_to_definition(s1, FrameAt(s1, 0), name, {dnode})

\* any(name in _globals for _globals in self._globals)
DeclaredGlobal(s, name) == \E i \in DOMAIN s._globals : name \in s._globals[i]

\* self._scopes[index], index a Python negative index
ScopeAt(s, index) == PyAt(s._scopes, index)

\* dnode in self.locals[scope]
InLocals(s, scope, d) == \E i \in DOMAIN LocalsOf(s, scope) : LocalsOf(s, scope)[i] = d

add_to_locals(s, name, dnode) ==
    IF DeclaredGlobal(s, name) THEN set_or_extend_global(s, name, dnode)
    ELSE IF ~InLocals(s, ScopeAt(s, -1), dnode) THEN locals_append(s, ScopeAt(s, -1), dnode)
    ELSE s

-----------------------------------------------------------------------------
(* The local pre-scan: CollectLocals / collect_locals.                     *)

\* x when it is a node, nothing when it is None
Opt(x) == IF x = None THEN <<>> ELSE <<x>>

\* the child nodes of a node, in the order generic_visit walks the fields
Children(node) ==
    CASE node.k = "Module" -> node.body
      [] node.k \in {"Expr", "Await", "Yield"} -> <<node.value>>
      [] node.k \in {"Assign", "AugAssign", "NamedExpr"} -> <<node.target, node.value>>
      [] node.k = "AnnAssign" -> <<node.target, node.annotation>> \o Opt(node.value)
      [] node.k = "Return" -> Opt(node.value)
      [] node.k = "Raise" -> Opt(node.exc)
      [] node.k \in {"If", "While"} -> <<node.test>> \o node.body \o node.orelse
      [] node.k = "For" -> <<node.target, node.iter>> \o node.body \o node.orelse
      [] node.k = "Try" -> node.body \o node.handlers \o node.orelse \o node.finalbody
      [] node.k = "ExceptHandler" -> Opt(node.type) \o Opt(node.name) \o node.body
      [] node.k = "FunctionDef" -> node.args \o node.body \o Opt(node.returns)
      [] node.k = "ClassDef" -> node.bases \o node.body
      [] node.k = "Lambda" -> node.args \o <<node.body>>
      [] node.k = "Call" -> <<node.func>> \o node.args
      [] node.k = "ListComp" -> <<node.elt>> \o node.generators
      [] node.k = "comprehension" -> <<node.target, node.iter>> \o node.ifs
      [] node.k \in {"Import", "ImportFrom"} -> node.names
      [] OTHER -> <<>>

RECURSIVE CollectVisit(_, _), CollectGeneric(_, _, _)
\* CollectLocals.visit(node); acc is the visitor: its Locals and NonLocals
CollectVisit(acc, node) ==
    CASE node.k \in {"FunctionDef", "ClassDef"} ->
            [acc EXCEPT !.Locals = @ \cup {node.name}]
      [] node.k \in {"Nonlocal", "Global"} ->
            [acc EXCEPT !.NonLocals = @ \cup Range(node.names)]
      [] node.k = "Name" ->
            IF node.ctx = "Store" /\ node.id \notin acc.NonLocals
            THEN [acc EXCEPT !.Locals = @ \cup {node.id}] ELSE acc
      [] node.k \in {"ListComp", "Lambda"} -> acc
      [] node.k = "Import" ->
            [acc EXCEPT !.Locals = @ \cup {NodeName(node.names[i]) : i \in DOMAIN node.names}]
      [] node.k = "ImportFrom" ->
            [acc EXCEPT !.Locals = @ \cup
                {IF node.names[i].asname # "" THEN node.names[i].asname
                 ELSE node.names[i].name[1] : i \in DOMAIN node.names}]
      [] OTHER -> CollectGeneric(acc, Children(node), 1)

\* generic_visit: the children from the i-th on
CollectGeneric(acc, children, i) ==
    IF i > Len(children) THEN acc
    ELSE CollectGeneric(CollectVisit(acc, children[i]), children, i + 1)

\* collect_locals(node), were the pre-scan to find nothing
collect_locals_of_nothing(node) == {}

\* collect_locals(node): the identifiers local to the scope node
collect_locals(node) ==
    CollectGeneric([Locals |-> {}, NonLocals |-> {}], Children(node), 1).Locals

-----------------------------------------------------------------------------
(* Name lookup: invalid_name_lookup / compute_defs.                        *)

\* name in defs or '*' in defs, for some frame of the list
Resolvable(s, name, frames) ==
    \E i \in DOMAIN frames : name \in Keys(s, frames[i]) \/ "*" \in Keys(s, frames[i])

\* self._definitions[0:-self._scope_depths[0]]: the frames of the module scope
TopLevelDefinitions(s) == PySlice(s._definitions, 0, -s._scope_depths[1])

\* invalid_name_lookup: TRUE when the name is a local of the scope that no frame binds yet
invalid_name_lookup(s, name, scope, precomputed_locals, local_defs) ==
    IF name \notin precomputed_locals THEN FALSE
    ELSE IF scope.k \in {"ClassDef", "def695"}
         THEN ~Resolvable(s, name, local_defs) /\ ~Resolvable(s, name, TopLevelDefinitions(s))
         ELSE ~Resolvable(s, name, local_defs)

\* the marker compute_defs puts in the list of frames to stop the search
StopIteration == 0

RECURSIVE EnclosingFrames(_, _, _, _, _)
\* the loop of compute_defs over the enclosing scopes: j counts from the top of the
\* three stacks (zip ends with the shortest), lvl is the (negative) index of the
\* first frame of the scope below
EnclosingFrames(s, name, base_scope, j, lvl) ==
    IF j > Min(Len(s._scopes), Min(Len(s._scope_depths), Len(s._precomputed_locals)))
    THEN <<>>
    ELSE LET scope == PyAt(s._scopes, -j)
             depth == PyAt(s._scope_depths, -j)
             precomputed_locals == PyAt(s._precomputed_locals, -j)
             defs == PySlice(s._definitions, lvl + depth, lvl)
         IN IF scope.k # "ClassDef" \/ base_scope.k = "def695"
            THEN IF invalid_name_lookup(s, name, base_scope, precomputed_locals, defs)
                 THEN <<StopIteration>>
                 ELSE Reverse(defs) \o EnclosingFrames(s, name, base_scope, j + 1, lvl + depth)
            ELSE EnclosingFrames(s, name, base_scope, j + 1, lvl + depth)

\* the frames compute_defs looks the name up in, in order
looked_up_definitions(s, name) ==
    IF DeclaredGlobal(s, name) THEN TopLevelDefinitions(s)
    ELSE LET depth == PyAt(s._scope_depths, -1)
             base_scope == PyAt(s._scopes, -1)
             defs == PySliceFrom(s._definitions, depth)
         IN IF invalid_name_lookup(s, name, base_scope, PyAt(s._precomputed_locals, -1), defs)
            THEN <<>>
            ELSE Reverse(defs) \o EnclosingFrames(s, name, base_scope, 2, depth)

RECURSIVE SearchFrames(_, _, _, _, _)
\* the search loop of compute_defs: [found, defs, stars]
SearchFrames(s, name, frames, i, stars) ==
    IF i > Len(frames) \/ frames[i] = StopIteration
    THEN [found |-> FALSE, defs |-> {}, stars |-> stars]
    ELSE IF name \in Keys(s, frames[i])
    THEN [found |-> TRUE, defs |-> stars \cup Get(s, frames[i], name), stars |-> stars]
    ELSE IF "*" \in Keys(s, frames[i])
    THEN SearchFrames(s, name, frames, i + 1, stars \cup Get(s, frames[i], "*"))
    ELSE SearchFrames(s, name, frames, i + 1, stars)

\* compute_defs(node, quiet): [s |-> the analyzer afterwards, defs |-> the Defs returned]
compute_defs(s, node, quiet) ==
    LET name == node.id
        \* no frame holds the name: d is self.chains.setdefault(node, Def(node))
        undefined(s1, d, stars) ==
            LET top == Len(s1._undefs)
                s2 == IF top > 0
                      THEN [s1 EXCEPT !._undefs[top] =
                              Put(@, name, (IF name \in DOMAIN @ THEN @[name] ELSE <<>>)
                                           \o <<[undef |-> d, stars |-> stars]>>)]
                      ELSE s1
            IN IF stars # {} THEN [s |-> s2, defs |-> stars \cup {d}]
               ELSE [s |-> IF top = 0 /\ ~quiet THEN unbound_identifier(s2, name, node) ELSE s2,
                     defs |-> {d}]
        setdefault(s1, stars) == undefined(s1, s1.chains[node.uid], stars)
        searched(r) ==
            IF r.found THEN [s |-> s, defs |-> r.defs]
            ELSE setdefault(IF node.uid \in DOMAIN s.chains THEN s
                            ELSE [NewDef(s, Undef(node)) EXCEPT
                                    !.chains = Put(@, node.uid, Undef(node))],
                            r.stars)
    IN searched(SearchFrames(s, name, looked_up_definitions(s, name), 1, {}))

-----------------------------------------------------------------------------
(* Annotation-name lookup: lookup_annotation_name_defs and its helpers.    *)

ClosedScopes == {"FunctionDef", "AsyncFunctionDef", "Lambda", "DictComp", "ListComp",
                 "SetComp", "GeneratorExp", "def695"}

\* _get_lookup_scopes(heads): heads[0] is the module, heads[-1] the direct scope
ClosedScope(sc) == sc.k \in ClosedScopes

get_lookup_scopes(heads) ==
    IF Len(heads) = 1 THEN heads
    ELSE LET middle == SubSeq(heads, 2, Len(heads) - 1)
             withclass == /\ middle # <<>>
                          /\ Last(heads).k = "def695"
                          /\ Last(middle).k = "ClassDef"
             direct_scopes == IF withclass THEN <<Last(middle), Last(heads)>>
                              ELSE <<Last(heads)>>
             rest == IF withclass THEN Front(middle) ELSE middle
         IN <<heads[1]>> \o SelectSeq(rest, ClosedScope) \o direct_scopes

RECURSIVE lookup(_, _, _, _)
\* _lookup(name, scopes, locals_map, only_live): the matching locals of the last scope
\* that has any, {} for LookupError; the recursive call passes no only_live
lookup(s, name, scopes, only_live) ==
    LET loc == LocalsOf(s, Last(scopes))
        defs == {loc[i] : i \in {j \in DOMAIN loc :
                    DefName(loc[j]) = name /\ (only_live => s.islive[loc[j]])}}
    IN IF defs # {} THEN defs
       ELSE IF Len(scopes) = 1 THEN {}
       ELSE lookup(s, name, Front(scopes), TRUE)

\* the same, were the module scope left at the head of the list
annotation_scopes_in_order(heads) == get_lookup_scopes(heads)

\* the list of scopes lookup_annotation_name_defs searches, last one first
annotation_scopes(heads) ==
    LET scopes == get_lookup_scopes(heads)
    IN IF Len(scopes) > 1 /\ Last(scopes).k # "def695"
       THEN Tail(scopes) \o <<scopes[1]>> ELSE scopes

\* lookup_annotation_name_defs(name, heads, locals_map):
\* [defs |-> the Defs found, error |-> "" or the LookupError raised]
lookup_annotation_name_defs(s, name, heads) ==
    LET killed(scopes) ==
            IF name \in Builtins THEN [defs |-> {}, error |-> "is a builtin"]
            ELSE IF lookup(s, name, scopes, FALSE) # {} THEN [defs |-> {}, error |-> "is killed"]
            ELSE [defs |-> {}, error |-> "not found"]
        live(scopes, defs) == IF defs # {} THEN [defs |-> defs, error |-> ""] ELSE killed(scopes)
        searched(scopes) == live(scopes, lookup(s, name, scopes, TRUE))
    IN searched(annotation_scopes(heads))

\* compute_annotation_defs(node, quiet)
compute_annotation_defs(s, node, quiet) ==
    LET looked_up(r) == IF r.error = "" THEN [s |-> s, defs |-> r.defs]
                        ELSE compute_defs(s, node, quiet)
    IN looked_up(lookup_annotation_name_defs(s, node.id, s._scopes))

\* self.defs(node, quiet): process_annotations swaps the method
defs(s, node, quiet) ==
    IF s.defs = "compute_annotation_defs" THEN compute_annotation_defs(s, node, quiet)
    ELSE compute_defs(s, node, quiet)

-----------------------------------------------------------------------------
(* The context managers.                                                   *)

\* what self._scopes holds of a scope node
ScopeRef(node) == [uid |-> node.uid, k |-> node.k]

\* ScopeContext, up to the yield
ScopeContext_enter(s, node) ==
    LET s1 == new_frame(s, EmptyDict)
    IN [s1 EXCEPT !._scopes = Append(@, ScopeRef(node)),
                  !._scope_depths = Append(@, -1),
                  !._definitions = Append(@, Len(s1.frames)),
                  !._globals = Append(@, {}),
                  !._precomputed_locals = Append(@, collect_locals(node))]

\* ScopeContext, after the yield
ScopeContext_exit(s) ==
    [s EXCEPT !._precomputed_locals = Front(@),
              !._globals = Front(@),
              !._definitions = Front(@),
              !._scope_depths = Front(@),
              !._scopes = Front(@)]

\* DefinitionContext(definitions), up to the yield; f is the frame object given
DefinitionContext_enter(s, f) ==
    [s EXCEPT !._definitions = Append(@, f),
              !._scope_depths[Len(s._scope_depths)] = @ - 1]

\* DefinitionContext, after the yield, were the frame left on the stack
DefinitionContext_exit_leaking(s) ==
    [s EXCEPT !._scope_depths[Len(s._scope_depths)] = @ + 1]

\* DefinitionContext, after the yield
DefinitionContext_exit(s) ==
    [s EXCEPT !._scope_depths[Len(s._scope_depths)] = @ + 1,
              !._definitions = Front(@)]

\* with self.DefinitionContext(self._definitions[-1].copy())
DefinitionContext_copy(s) ==
    LET s1 == frame_copy(s, FrameAt(s, -1)) IN DefinitionContext_enter(s1, Len(s1.frames))

\* with self.DefinitionContext(defaultdict(ordered_set))
DefinitionContext_new(s) ==
    LET s1 == new_frame(s, EmptyDict) IN DefinitionContext_enter(s1, Len(s1.frames))

\* the four stacks SwitchScopeContext swaps
Stacks(s) ==
    [defs |-> s._definitions, scopes |-> s._scopes, scope_depths |-> s._scope_depths,
     precomputed_locals |-> s._precomputed_locals]

\* SwitchScopeContext, were the precomputed locals left where they are
SwitchScopeContext_of_three(s, st) ==
    [s EXCEPT !._definitions = st.defs, !._scopes = st.scopes,
              !._scope_depths = st.scope_depths]

\* SwitchScopeContext: install the stacks st (on entry the ones given, on exit the saved ones)
SwitchScopeContext(s, st) ==
    [s EXCEPT !._definitions = st.defs, !._scopes = st.scopes,
              !._scope_depths = st.scope_depths,
              !._precomputed_locals = st.precomputed_locals]

-----------------------------------------------------------------------------
(* Expression visitors.  Each yields [s |-> the analyzer afterwards,       *)
(* d |-> the Def the visitor returns].                                     *)

\* d.add_user(user) for every Def d of ds
add_user_all(s, ds, user) ==
    [s EXCEPT !.users = [d \in DOMAIN @ |-> IF d \in ds THEN @[d] \cup {user} ELSE @[d]]]

\* _first_non_comprehension_scope, were the scope at hand always the one found
innermost_scope_index(s, index) == index

RECURSIVE first_non_comprehension_index(_, _)
\* _first_non_comprehension_scope: the (negative) index of the scope found
first_non_comprehension_index(s, index) ==
    IF ScopeAt(s, index).k = "ListComp"
    THEN first_non_comprehension_index(s, index - 1) ELSE index

\* no callback: the cb of an entry of self._defered_annotations that has None
NoDef == [uid |-> -2, kind |-> "None", name |-> "", v |-> 0]

\* the entry (node, heads, cb) of self._defered_annotations; every callback of the
\* code is lambda d: d.add_user(dnode), and cb holds its dnode
AnnotationEntry(s, node, cb) == [node |-> node, heads |-> s._scopes, cb |-> cb]

\* the snapshot visit_FunctionDef and visit_Lambda append to self._defered
DeferedEntry(s, node) ==
    [node |-> node, defs |-> s._definitions, scopes |-> s._scopes,
     scope_depths |-> s._scope_depths, precomputed_locals |-> s._precomputed_locals]

\* visit_Name, Param and Store contexts
visit_Name_store(s, node, named_expr) ==
    LET bound(s2, dnode, index) ==
            [s |-> IF ~InLocals(s2, ScopeAt(s2, index), dnode)
                   THEN locals_append(s2, ScopeAt(s2, index), dnode) ELSE s2,
             d |-> dnode]
        stored(s1, dnode, index) ==
            IF DeclaredGlobal(s1, node.id)
            THEN [s |-> set_or_extend_global(s1, node.id, dnode), d |-> dnode]
            ELSE IF index < -1 /\ ScopeAt(s1, index).k = "ClassDef"
            THEN [s |-> warn(s1, "assignment expression within a comprehension cannot be used in a class body", node),
                  d |-> dnode]
            ELSE bound(set_definition(s1, node.id, {dnode}, index), dnode, index)
        declared(s1) ==
            stored(s1, s1.chains[node.uid],
                   IF named_expr THEN first_non_comprehension_index(s1, -1) ELSE -1)
    IN declared(chains_setdefault(s, node))

\* visit_Name, Load and Del contexts
visit_Name_load(s, node) ==
    LET node_in_chains == node.uid \in DOMAIN s.chains
        dnode == IF node_in_chains THEN s.chains[node.uid] ELSE Def(node)
        stored(s1) ==
            [s |-> IF node_in_chains THEN s1 ELSE [s1 EXCEPT !.chains = Put(@, node.uid, dnode)],
             d |-> dnode]
        used(r) == stored(add_user_all(r.s, r.defs, dnode))
    IN used(defs(NewDef(s, dnode), node, FALSE))

visit_Name(s, node, named_expr) ==
    IF node.ctx \in {"Param", "Store"} THEN visit_Name_store(s, node, named_expr)
    ELSE visit_Name_load(s, node)

\* the Def of a node in self.chains, with the analyzer: what a visitor returns
Visited(s, node) == [s |-> s, d |-> s.chains[node.uid]]

visit_Constant(s, node) == Visited(chains_setdefault(s, node), node)

\* visit_Lambda, DeclarationStep
visit_Lambda(s, node) ==
    LET deferred(s1) ==
            [s |-> [s1 EXCEPT !._defered = Append(@, DeferedEntry(s1, node))],
             d |-> s1.chains[node.uid]]
    IN deferred(chains_setdefault(s, node))

RECURSIVE Walk(_)
\* ast.walk(node): the node and all its descendants
Walk(node) == {node} \cup UNION {Walk(Children(node)[i]) : i \in DOMAIN Children(node)}

\* _validate_comprehension(node): the message of the SyntaxError raised, "" for none
validate_comprehension(node) ==
    LET gens == node.generators
        iter_names == UNION {{n.id : n \in {m \in Walk(gens[i].target) :
                                                m.k = "Name" /\ m.ctx = "Store"}} :
                             i \in DOMAIN gens}
    IN IF \E i \in DOMAIN gens : \E n \in Walk(gens[i].iter) : n.k = "NamedExpr"
       THEN "assignment expression cannot be used in a comprehension iterable expression"
       ELSE IF \E n \in Walk(node) : n.k = "NamedExpr" /\ n.target.id \in iter_names
       THEN "assignment expression cannot rebind comprehension iteration variable"
       ELSE ""

\* the same, were the assignment expression alone illegal
validate_annotation_body_of_walrus(node) ==
    IF \E n \in Walk(node) : n.k = "NamedExpr"
    THEN "assignment expression cannot be used in annotation-like scopes"
    ELSE ""

\* _validate_annotation_body(node): the message of the SyntaxError raised, "" for none;
\* the annotations of the model hold illegal nodes of one kind at most
validate_annotation_body(node) ==
    LET illegal == {n.k : n \in Walk(node)} \cap {"NamedExpr", "Yield", "YieldFrom", "Await"}
    IN IF "NamedExpr" \in illegal
       THEN "assignment expression cannot be used in annotation-like scopes"
       ELSE IF "Await" \in illegal
       THEN "await keyword cannot be used in annotation-like scopes"
       ELSE IF illegal # {}
       THEN "yield keyword cannot be used in annotation-like scopes"
       ELSE ""

\* no name of a module of the model is bound to typing.TypeAlias or typing.TypeVar
matches_typing_name(s, expr) == FALSE

\* r.add_user(user), r what a visitor returned; the analyzer afterwards
Used(r, user) == add_user(r.s, r.d, user)

RECURSIVE visit_expr(_, _), visit_comprehension(_, _, _), visit_generators(_, _, _, _),
          visit_ifs(_, _, _, _), visit_Call_args(_, _, _, _), visit_outermost_iter(_, _, _)
\* self.visit(node) for an expression
visit_expr(s, node) ==
    CASE node.k = "Name" -> visit_Name(s, node, FALSE)
      [] node.k = "Constant" -> visit_Constant(s, node)
      [] node.k = "Lambda" -> visit_Lambda(s, node)
      [] node.k \in {"Await", "Yield"} ->
            \* visit_Await, visit_Yield
            LET declared(s1) ==
                    [s |-> Used(visit_expr(s1, node.value), s1.chains[node.uid]),
                     d |-> s1.chains[node.uid]]
            IN declared(chains_setdefault(s, node))
      [] node.k = "Call" ->
            \* visit_Call
            LET called(r, dnode) ==
                    [s |-> visit_Call_args(add_user(r.s, r.d, dnode), node, 1, dnode),
                     d |-> dnode]
                declared(s1) == called(visit_expr(s1, node.func), s1.chains[node.uid])
            IN declared(chains_setdefault(s, node))
      [] node.k = "NamedExpr" ->
            \* visit_NamedExpr
            LET valued(s1, dnode) ==
                    [s |-> visit_Name(Used(visit_expr(s1, node.value), dnode),
                                      node.target, TRUE).s,
                     d |-> dnode]
                declared(s1) == valued(s1, s1.chains[node.uid])
            IN declared(chains_setdefault(s, node))
      [] node.k = "ListComp" ->
            \* visit_ListComp
            LET scoped(s1, dnode) ==
                    [s |-> ScopeContext_exit(
                             Used(visit_expr(visit_generators(ScopeContext_enter(s1, node),
                                                              node.generators, 1, dnode),
                                             node.elt), dnode)),
                     d |-> dnode]
                validated(s1, e) ==
                    IF e # "" THEN [s |-> warn(s1, e, node), d |-> s1.chains[node.uid]]
                    ELSE scoped(s1, s1.chains[node.uid])
            IN validated(chains_setdefault(s, node), validate_comprehension(node))

\* the loops of visit_Call over node.args, from the i-th on: in a stub the arguments
\* of TypeVar() are put on the queue
visit_Call_args(s, node, i, dnode) ==
    IF i > Len(node.args) THEN s
    ELSE visit_Call_args(
            IF s.is_stub /\ matches_typing_name(s, node.func)
            THEN [s EXCEPT !._defered_annotations[Len(s._defered_annotations)] =
                              Append(@, AnnotationEntry(s, node.args[i], dnode))]
            ELSE Used(visit_expr(s, node.args[i]), dnode),
            node, i + 1, dnode)

\* the loop of visit_ListComp over node.generators, from the i-th on
visit_generators(s, generators, i, dnode) ==
    IF i > Len(generators) THEN s
    ELSE visit_generators(Used(visit_comprehension(s, generators[i], i # 1), dnode),
                          generators, i + 1, dnode)

visit_comprehension(s, node, is_nested) ==
    LET \* the rest of the clause, after the iterable: the target and the conditions
        iterated(s4, dnode) ==
            [s |-> visit_ifs(visit_expr(s4, node.target).s, node.ifs, 1, dnode), d |-> dnode]
        declared(s1, dnode) ==
            iterated(IF is_nested THEN Used(visit_expr(s1, node.iter), dnode)
                     ELSE visit_outermost_iter(s1, node, dnode), dnode)
        created(s1) == declared(s1, s1.chains[node.uid])
    IN created(chains_setdefault(s, node))

\* visit_comprehension, not is_nested: the outermost iterable is visited with the
\* comprehension's scope taken off the four stacks
visit_outermost_iter(s, node, dnode) ==
    SwitchScopeContext(
        Used(visit_expr(SwitchScopeContext(s,
                [defs |-> Front(s._definitions),
                 scopes |-> Front(s._scopes),
                 scope_depths |-> Front(s._scope_depths),
                 precomputed_locals |-> Front(s._precomputed_locals)]),
             node.iter), dnode),
        Stacks(s))

\* the loop of visit_comprehension over node.ifs, from the i-th on
visit_ifs(s, ifs, i, dnode) ==
    IF i > Len(ifs) THEN s
    ELSE visit_ifs(Used(visit_expr(s, ifs[i]), dnode), ifs, i + 1, dnode)

\* self.visit(node).add_user(user)
visit_expr_for(s, node, user) == Used(visit_expr(s, node), user)

-----------------------------------------------------------------------------
(* The analyzer after DefUseChains.__init__.                               *)

\* filename is not None and filename.endswith('.pyi')
IsStubFile(filename) == filename = "m.pyi"

DefUseChains(filename, future_annotations) ==
    [chains |-> EmptyDict,
     locals |-> EmptyDict,
     is_stub |-> IsStubFile(filename),
     future_annotations |-> IsStubFile(filename) \/ future_annotations,
     _builtins |-> [key \in Builtins |-> BuiltinDef(key)],
     _defered |-> <<>>,
     _definitions |-> <<>>,
     _scope_depths |-> <<>>,
     _globals |-> <<>>,
     _precomputed_locals |-> <<>>,
     _undefs |-> <<>>,
     _scopes |-> <<>>,
     _breaks |-> <<>>,
     _continues |-> <<>>,
     _defered_annotations |-> <<>>,
     _deadcode |-> 0,
     defs |-> "compute_defs",
     \* the objects the instance owns
     users |-> [d \in {BuiltinDef(key) : key \in Builtins} |-> {}],
     islive |-> [d \in {BuiltinDef(key) : key \in Builtins} |-> TRUE],
     frames |-> <<>>,
     osets |-> <<>>,
     \* what it printed, and the exception that ended visit, if any
     warnings |-> <<>>,
     raised |-> ""]

-----------------------------------------------------------------------------
(* The call stack.                                                         *)

\* the frame of a call of process_body: i statements have been handed to visit
BodyItem(stmts) == [op |-> "process_body", stmts |-> stmts, i |-> 0, deadcode |-> FALSE]

\* a pending self.visit(node) of a statement
VisitItem(node) == [op |-> "visit", node |-> node]

Push(items) == kont' = items \o Tail(kont)

Pop == kont' = Tail(kont)

\* the innermost pending step is a visit of a statement of kind k
AtStmt(k) == kont # <<>> /\ kont[1].op = "visit" /\ kont[1].node.k = k

At(op) == kont # <<>> /\ kont[1].op = op

-----------------------------------------------------------------------------
(* visit_Module, process_body and the two deferred queues.                 *)

RECURSIVE CollectFuture(_, _)
\* _CollectFutureImports.visit_Module: the traversal stops at the first statement that
\* is not a `from __future__ import` (no constant of the model is a string)
CollectFuture(body, i) ==
    IF i > Len(body) THEN {}
    ELSE IF body[i].k = "ImportFrom" /\ body[i].level = 0 /\ body[i].module = <<"__future__">>
    THEN {body[i].names[j].name[1] : j \in DOMAIN body[i].names} \cup CollectFuture(body, i + 1)
    ELSE {}

collect_future_imports(node) == CollectFuture(node.body, 1)

\* visit_Module, up to the call of process_body
visit_Module ==
    /\ At("visit_Module")
    /\ LET node == module
           \* self._definitions[-1].update({k: ordered_set((v,)) ...})
           entered(s2) ==
               [s2 EXCEPT
                    !.osets = @ \o [i \in 1..Cardinality(Builtins) |->
                                        {s2._builtins[SeqOfSet(Builtins)[i]]}],
                    !.frames[FrameAt(s2, -1)] =
                        [key \in Builtins |->
                            Len(s2.osets) + CHOOSE i \in 1..Cardinality(Builtins) :
                                                SeqOfSet(Builtins)[i] = key],
                    !._defered_annotations = Append(@, <<>>)]
       IN /\ duc' = entered(ScopeContext_enter(
                        [duc EXCEPT !.future_annotations =
                                @ \/ "annotations" \in collect_future_imports(node)], node))
          /\ Push(<<BodyItem(node.body),
                    [op |-> "process_functions_bodies", i |-> 0],
                    [op |-> "process_annotations", i |-> 0],
                    [op |-> "Module_exit"]>>)
    /\ UNCHANGED module

\* process_body: one turn of the loop, from the return of self.visit(stmt) to the
\* next call of it, or to the return of process_body
process_body ==
    /\ At("process_body")
    /\ LET it == kont[1]
           dead == /\ it.i >= 1
                   /\ it.stmts[it.i].k \in {"Break", "Continue", "Raise"}
                   /\ ~it.deadcode
           deadcode == it.deadcode \/ dead
       IN IF it.i < Len(it.stmts)
          THEN /\ duc' = [duc EXCEPT !._deadcode = IF dead THEN @ + 1 ELSE @]
               /\ Push(<<VisitItem(it.stmts[it.i + 1]),
                         [it EXCEPT !.i = @ + 1, !.deadcode = deadcode]>>)
          ELSE /\ duc' = [duc EXCEPT !._deadcode = IF dead \/ ~deadcode THEN @ ELSE @ - 1]
               /\ Pop
    /\ UNCHANGED module

\* process_functions_bodies: one turn of the loop over self._defered, up to the call
\* of the visitor inside SwitchScopeContext
process_functions_bodies ==
    /\ At("process_functions_bodies")
    /\ LET it == kont[1] IN
       IF it.i < Len(duc._defered)
       THEN LET entry == duc._defered[it.i + 1]
            IN /\ duc' = SwitchScopeContext(duc, entry)
               /\ Push(<<[op |-> "DefinitionStep", node |-> entry.node],
                         [op |-> "SwitchScopeContext_exit", saved |-> Stacks(duc)],
                         [it EXCEPT !.i = @ + 1]>>)
       ELSE duc' = duc /\ Pop
    /\ UNCHANGED module

\* SwitchScopeContext, after the yield
SwitchScopeContext_exit ==
    /\ At("SwitchScopeContext_exit")
    /\ duc' = SwitchScopeContext(duc, kont[1].saved)
    /\ Pop
    /\ UNCHANGED module

RECURSIVE visit_args(_, _, _)
\* the loop over _iter_arguments(node.args): visit_Name of every parameter
visit_args(s, args, i) ==
    IF i > Len(args) THEN s ELSE visit_args(visit_Name(s, args[i], FALSE).s, args, i + 1)

\* visit_FunctionDef, DefinitionStep, up to the call of process_body
visit_FunctionDef_DefinitionStep ==
    /\ At("DefinitionStep") /\ kont[1].node.k = "FunctionDef"
    /\ LET node == kont[1].node
       IN /\ duc' = visit_args(ScopeContext_enter(duc, node), node.args, 1)
          /\ Push(<<BodyItem(node.body), [op |-> "FunctionDef_exit", node |-> node]>>)
    /\ UNCHANGED module

\* visit_FunctionDef, DefinitionStep: the exit of ScopeContext
FunctionDef_exit ==
    /\ At("FunctionDef_exit")
    /\ duc' = ScopeContext_exit(duc)
    /\ Pop
    /\ UNCHANGED module

\* visit_Lambda, DefinitionStep
visit_Lambda_DefinitionStep ==
    /\ At("DefinitionStep") /\ kont[1].node.k = "Lambda"
    /\ LET node == kont[1].node
       IN duc' = ScopeContext_exit(
                    visit_expr_for(visit_args(ScopeContext_enter(duc, node), node.args, 1),
                                   node.body, duc.chains[node.uid]))
    /\ Pop
    /\ UNCHANGED module

\* process_annotations: one turn of the loop over self._defered_annotations[-1];
\* the exchange of self.defs before the loop and after it
process_annotations ==
    /\ At("process_annotations")
    /\ LET it == kont[1]
           annotations == PyAt(duc._defered_annotations, -1)
           \* cb(visitor(annnode)) if cb else visitor(annnode)
           called(r, cb) == IF cb # NoDef THEN add_user(r.s, r.d, cb) ELSE r.s
           visited(entry) ==
               called(visit_expr([duc EXCEPT !.defs = "compute_annotation_defs",
                                             !._scopes = entry.heads], entry.node),
                      entry.cb)
       IN IF it.i < Len(annotations)
          THEN /\ duc' = [visited(annotations[it.i + 1]) EXCEPT !._scopes = duc._scopes]
               /\ Push(<<[it EXCEPT !.i = @ + 1]>>)
          ELSE /\ duc' = [duc EXCEPT !.defs = "compute_defs"]
               /\ Pop
    /\ UNCHANGED module

\* the sanity checks visit_Module makes under __debug__
ModuleSanity(s) ==
    LET heads == LocalsOf(s, [uid |-> 0])
        names == {DefName(heads[i]) : i \in DOMAIN heads}
        overloaded_builtins == names \cap Builtins
    IN /\ \A name \in names : name \in Keys(s, FrameAt(s, 0))
       /\ Cardinality(Keys(s, FrameAt(s, 0))) =
            Cardinality(names) + Cardinality(Builtins) - Cardinality(overloaded_builtins)

\* the asserts that end visit_Module
ModuleStacksEmpty(s) ==
    /\ s._definitions = <<>>
    /\ s._defered_annotations = <<>>
    /\ s._scopes = <<>>
    /\ s._scope_depths = <<>>
    /\ s._precomputed_locals = <<>>

\* visit_Module, from the return of process_annotations to its end
Module_exit ==
    /\ At("Module_exit")
    /\ LET left(s2) == IF ~ModuleStacksEmpty(s2) THEN [s2 EXCEPT !.raised = "AssertionError"]
                       ELSE s2
           checked(s1) == IF ~ModuleSanity(s1) THEN [s1 EXCEPT !.raised = "AssertionError"]
                          ELSE left(ScopeContext_exit(s1))
       IN duc' = checked([duc EXCEPT !._defered_annotations = Front(@)])
    /\ Pop
    /\ UNCHANGED module

-----------------------------------------------------------------------------
(* The statement visitors that call no process_body.                       *)

\* an exception leaves visit_Module: no context manager of the analyzer has a
\* finally clause, so nothing that was pending runs
Throw(s, exc) ==
    /\ duc' = [s EXCEPT !.raised = exc]
    /\ kont' = <<>>
    /\ UNCHANGED module

\* the visitor ends and returns to its caller
Done(s) ==
    /\ duc' = s
    /\ Pop
    /\ UNCHANGED module

\* self.visit(node) of an optional expression
visit_opt(s, node) == IF node = None THEN s ELSE visit_expr(s, node).s

\* visit_Expr: generic_visit
visit_Expr ==
    /\ AtStmt("Expr")
    /\ Done(visit_expr(duc, kont[1].node.value).s)

visit_Return ==
    /\ AtStmt("Return")
    /\ Done(visit_opt(duc, kont[1].node.value))

\* visit_Raise: generic_visit
visit_Raise ==
    /\ AtStmt("Raise")
    /\ Done(visit_opt(duc, kont[1].node.exc))

visit_Assign ==
    /\ AtStmt("Assign")
    /\ LET node == kont[1].node
       IN Done(visit_expr(visit_expr(duc, node.value).s, node.target).s)

\* the same, were an annotation visited at once in every mode
visit_annotation_at_once(s, annotation) == visit_expr(s, annotation).s

\* the part of visit_AnnAssign and visit_FunctionDef that handles an annotation:
\* visited at once, or validated and put on the queue
visit_annotation(s, annotation) ==
    LET validated(e) ==
            IF e # "" THEN warn(s, e, annotation)
            ELSE [s EXCEPT !._defered_annotations[Len(s._defered_annotations)] =
                                Append(@, AnnotationEntry(s, annotation, NoDef))]
    IN IF ~s.future_annotations THEN visit_expr(s, annotation).s
       ELSE validated(validate_annotation_body(annotation))

visit_AnnAssign ==
    /\ AtStmt("AnnAssign")
    /\ LET node == kont[1].node
           is_alias == /\ duc.is_stub /\ node.value # None
                       /\ matches_typing_name(duc, node.annotation)
           valued == IF is_alias
                     THEN [duc EXCEPT !._defered_annotations[Len(duc._defered_annotations)] =
                                         Append(@, AnnotationEntry(duc, node.value, NoDef))]
                     ELSE visit_opt(duc, node.value)
       IN Done(visit_expr(visit_annotation(valued, node.annotation), node.target).s)

RECURSIVE setattr_ctx(_, _, _)
\* setattr(target, "ctx", ctx), seen from the tree `node` the target is part of
setattr_ctx(node, target, ctx) ==
    LET each(stmts) == [i \in DOMAIN stmts |-> setattr_ctx(stmts[i], target, ctx)]
    IN CASE node.k = "AugAssign" ->
                IF node.target.uid = target.uid THEN [node EXCEPT !.target.ctx = ctx] ELSE node
         [] node.k \in {"If", "While", "For"} ->
                [node EXCEPT !.body = each(@), !.orelse = each(@)]
         [] node.k = "Try" ->
                [node EXCEPT !.body = each(@), !.handlers = each(@),
                             !.orelse = each(@), !.finalbody = each(@)]
         [] node.k \in {"Module", "FunctionDef", "ClassDef", "ExceptHandler"} ->
                [node EXCEPT !.body = each(@)]
         [] OTHER -> node

\* visit_AugAssign: ctx, node.target.ctx = node.target.ctx, ast.Load()
swap_ctx(ast, target) == setattr_ctx(ast, target, "Load")

\* visit_AugAssign, were the context of the target not put back
restore_ctx_never(ast, target, ctx) == ast

\* visit_AugAssign: node.target.ctx = ctx
restore_ctx(ast, target, ctx) == setattr_ctx(ast, target, ctx)

visit_AugAssign ==
    /\ AtStmt("AugAssign")
    /\ LET node == kont[1].node
           \* the target is visited with ctx = Load
           target == [node.target EXCEPT !.ctx = "Load"]
           \* a target read from a wildcard import is a local of the scope
           located(s2, loaded_from, dtarget) ==
               IF "*" \in loaded_from THEN locals_append(s2, ScopeAt(s2, -1), dtarget) ELSE s2
           loaded(rd, dtarget) ==
               located(set_definition(rd.s, target.id, {dtarget}, -1),
                       {DefName(d) : d \in rd.defs}, dtarget)
           linked(s1, dtarget) ==
               IF DeclaredGlobal(s1, target.id) THEN extend_global(s1, target.id, {dtarget})
               ELSE loaded(defs(s1, target, TRUE), dtarget)
           targeted(rt, dvalue) == linked(add_user(rt.s, dvalue, rt.d), rt.d)
           valued(rv) == targeted(visit_expr(rv.s, target), rv.d)
       IN /\ duc' = valued(visit_expr(duc, node.value))
          /\ module' = restore_ctx(swap_ctx(module, node.target), node.target, node.target.ctx)
    /\ Pop

RECURSIVE add_all_to_definition(_, _, _, _)
\* for k, v in definitions.items(): add_to_definition(target, k, v), for the keys given
add_all_to_definition(s, target, f, names) ==
    IF names = {} THEN s
    ELSE LET k == CHOOSE n \in names : TRUE
         IN add_all_to_definition(add_to_definition(s, target, k, Get(s, f, k)),
                                  target, f, names \ {k})

visit_Break ==
    /\ AtStmt("Break")
    /\ LET f == FrameAt(duc, -1)
       IN Done(frame_clear(add_all_to_definition(duc, PyAt(duc._breaks, -1), f, Keys(duc, f)), f))

visit_Continue ==
    /\ AtStmt("Continue")
    /\ LET f == FrameAt(duc, -1)
       IN Done(frame_clear(add_all_to_definition(duc, PyAt(duc._continues, -1), f, Keys(duc, f)), f))

visit_Global ==
    /\ AtStmt("Global")
    /\ Done([duc EXCEPT !._globals[Len(duc._globals)] = @ \cup Range(kont[1].node.names)])

\* the i of visit_Nonlocal's search: the first frame under the top one that holds the name,
\* counted from the top; 0 when no frame does
NonlocalFrame(s, name) ==
    LET hits == {i \in 1..(Len(s._definitions) - 1) : name \in Keys(s, PyAt(s._definitions, -i - 1))}
    IN IF hits = {} THEN 0 ELSE CHOOSE i \in hits : \A j \in hits : i <= j

RECURSIVE visit_Nonlocal_names(_, _, _, _)
\* the loop of visit_Nonlocal over node.names, from the i-th on: the analyzer afterwards,
\* with `raised` set when self._scopes[-i-1] is out of range
visit_Nonlocal_names(s, node, names, n) ==
    IF n > Len(names) THEN s
    ELSE LET name == names[n]
             i == NonlocalFrame(s, name)
         IN IF i = 0
            THEN visit_Nonlocal_names(unbound_identifier(s, name, node), node, names, n + 1)
            ELSE IF i + 1 > Len(s._scopes) THEN [s EXCEPT !.raised = "IndexError"]
            ELSE IF PyAt(s._scopes, -i - 1).k = "def695"
            THEN visit_Nonlocal_names(
                    warn(s, "names defined in annotation scopes cannot be rebound with nonlocal statements", node),
                    node, names, n + 1)
            ELSE visit_Nonlocal_names(
                    set_definition(s, name, Get(s, PyAt(s._definitions, -i - 1), name), -1),
                    node, names, n + 1)

visit_Nonlocal ==
    /\ AtStmt("Nonlocal")
    /\ LET ended(s1) == IF s1.raised # "" THEN Throw(s1, s1.raised) ELSE Done(s1)
       IN ended(visit_Nonlocal_names(duc, kont[1].node, kont[1].node.names, 1))

\* the loop of visit_Import and visit_ImportFrom over node.names, from the i-th on
RECURSIVE visit_aliases(_, _, _)
visit_aliases(s, node, i) ==
    LET bound(s1, alias_, dalias) ==
            add_to_locals(IF node.k = "ImportFrom" /\ alias_.name = <<"*">>
                          THEN extend_definition(s1, "*", {dalias})
                          ELSE set_definition(s1, NodeName(alias_), {dalias}, -1),
                          NodeName(alias_), dalias)
        created(s1, alias_) == bound(s1, alias_, s1.chains[alias_.uid])
    IN IF i > Len(node.names) THEN s
       ELSE visit_aliases(created(chains_setdefault(s, node.names[i]), node.names[i]),
                          node, i + 1)

visit_Import ==
    /\ AtStmt("Import")
    /\ Done(visit_aliases(duc, kont[1].node, 1))

visit_ImportFrom ==
    /\ AtStmt("ImportFrom")
    /\ Done(visit_aliases(duc, kont[1].node, 1))

\* visit_FunctionDef, DeclarationStep
visit_FunctionDef ==
    /\ AtStmt("FunctionDef")
    /\ LET node == kont[1].node
           deferred(s4) == [s4 EXCEPT !._defered = Append(@, DeferedEntry(s4, node))]
           annotated(s2) == IF node.returns = None THEN s2
                            ELSE visit_annotation(s2, node.returns)
           declared(s1, dnode) ==
               deferred(set_definition(annotated(add_to_locals(s1, node.name, dnode)),
                                       node.name, {dnode}, -1))
           created(s1) == declared(s1, s1.chains[node.uid])
       IN Done(created(chains_setdefault(duc, node)))

-----------------------------------------------------------------------------
(* The statement visitors that call process_body: one action for each      *)
(* stretch of the visitor between two calls of it.                         *)

RECURSIVE extend_from(_, _, _)
\* for d, u in definitions.items(): self.extend_definition(d, u), for the keys given
extend_from(s, f, names) ==
    IF names = {} THEN s
    ELSE LET d == CHOOSE n \in names : TRUE
         IN extend_from(extend_definition(s, d, Get(s, f, d)), f, names \ {d})

\* the same for all the keys of the frame f
extend_all(s, f) == extend_from(s, f, Keys(s, f))

\* visit_If, up to process_body(node.body)
visit_If ==
    /\ AtStmt("If")
    /\ LET node == kont[1].node
           entered(s1) ==
               /\ duc' = s1
               /\ Push(<<BodyItem(node.body),
                         [op |-> "If_orelse", node |-> node, body_defs |-> FrameAt(s1, -1)]>>)
       IN entered(DefinitionContext_copy(visit_expr(duc, node.test).s))
    /\ UNCHANGED module

\* visit_If, from the end of the first with block to process_body(node.orelse)
If_orelse ==
    /\ At("If_orelse")
    /\ LET entered(s1) ==
               /\ duc' = s1
               /\ Push(<<BodyItem(kont[1].node.orelse),
                         [op |-> "If_join", body_defs |-> kont[1].body_defs,
                          orelse_defs |-> FrameAt(s1, -1)]>>)
       IN entered(DefinitionContext_copy(DefinitionContext_exit(duc)))
    /\ UNCHANGED module

RECURSIVE If_merge_body(_, _, _, _)
\* the first loop of visit_If, were a name of both arms set to the Defs of the body alone
If_merge_body(s, body_defs, orelse_defs, names) ==
    IF names = {} THEN s
    ELSE LET d == CHOOSE n \in names : TRUE
             s1 == IF d \in Keys(s, orelse_defs)
                   THEN set_definition(s, d, Get(s, body_defs, d), -1)
                   ELSE extend_definition(s, d, Get(s, body_defs, d))
         IN If_merge_body(s1, body_defs, orelse_defs, names \ {d})

RECURSIVE If_merge(_, _, _, _)
\* the first loop of visit_If after the with blocks, for the keys given
If_merge(s, body_defs, orelse_defs, names) ==
    IF names = {} THEN s
    ELSE LET d == CHOOSE n \in names : TRUE
             s1 == IF d \in Keys(s, orelse_defs)
                   THEN set_definition(s, d, Get(s, body_defs, d) \cup Get(s, orelse_defs, d), -1)
                   ELSE extend_definition(s, d, Get(s, body_defs, d))
         IN If_merge(s1, body_defs, orelse_defs, names \ {d})

\* visit_If, from the end of the second with block
If_join ==
    /\ At("If_join")
    /\ LET body_defs == kont[1].body_defs
           orelse_defs == kont[1].orelse_defs
           \* the second loop: the names of orelse_defs alone
           merged(s2) == extend_from(s2, orelse_defs, Keys(s2, orelse_defs) \ Keys(s2, body_defs))
           left(s1) == merged(If_merge(s1, body_defs, orelse_defs, Keys(s1, body_defs)))
       IN Done(left(DefinitionContext_exit(duc)))

\* process_undefs: the users of the placeholders go to the Defs that now bind the name;
\* a name that is still unbound is warned about, once for every placeholder without
\* wildcard import (the code warns name after name in the order of the dict, the model
\* in a fixed order of the names)
process_undefs(s) ==
    LET undefs == PyAt(s._undefs, -1)
        f == FrameAt(s, -1)
        bound == {n \in DOMAIN undefs : n \in Keys(s, f)}
        \* the users the Defs of a bound name are given
        users(n) == UNION {s.users[undefs[n][i].undef] : i \in DOMAIN undefs[n]}
        newusers(d) == UNION {users(n) : n \in {m \in bound : d \in Get(s, f, m)}}
        \* the warnings for the names that are not bound, name after name
        unbound == SeqOfSet(DOMAIN undefs \ bound)
        warned(n) == SelectSeq(undefs[n], LAMBDA u : u.stars = {})
        RECURSIVE Warn(_, _)
        Warn(t, i) ==
            IF i > Len(unbound) THEN t
            ELSE LET w == warned(unbound[i])
                 IN Warn([t EXCEPT !.warnings = @ \o
                            [j \in 1..Len(w) |-> [msg |-> "unbound identifier",
                                                  uid |-> w[j].undef.uid]]], i + 1)
        s1 == [s EXCEPT !.users = [d \in DOMAIN @ |-> @[d] \cup newusers(d)]]
    IN [Warn(s1, 1) EXCEPT !._undefs = Front(@)]

\* self._breaks.append(defaultdict(ordered_set))
push_breaks(s) ==
    LET s1 == new_frame(s, EmptyDict) IN [s1 EXCEPT !._breaks = Append(@, Len(s1.frames))]

\* self._continues.append(defaultdict(ordered_set))
push_continues(s) ==
    LET s1 == new_frame(s, EmptyDict) IN [s1 EXCEPT !._continues = Append(@, Len(s1.frames))]

\* the stretch both loops share: process_undefs, then the continue definitions of the
\* first round reach the start of the second one
loop_second_round(s) ==
    LET continued(s1) ==
            push_continues(extend_all([s1 EXCEPT !._continues = Front(@)],
                                      PyAt(s1._continues, -1)))
    IN continued(process_undefs(s))

\* visit_For, up to the first process_body(node.body)
visit_For ==
    /\ AtStmt("For")
    /\ LET node == kont[1].node
           entered(s2) ==
               /\ duc' = visit_expr(s2, node.target).s
               /\ Push(<<BodyItem(node.body),
                         [op |-> "For_second", node |-> node, body_defs |-> FrameAt(s2, -1)]>>)
       IN entered(DefinitionContext_copy(
                    [push_continues(push_breaks(visit_expr(duc, node.iter).s))
                        EXCEPT !._undefs = Append(@, EmptyDict)]))
    /\ UNCHANGED module

\* visit_For, from the first process_body(node.body) to the second
For_second ==
    /\ At("For_second")
    /\ LET node == kont[1].node
       IN /\ duc' = visit_expr(loop_second_round(duc), node.target).s
          /\ Push(<<BodyItem(node.body), [kont[1] EXCEPT !.op = "For_orelse"]>>)
    /\ UNCHANGED module

\* visit_For, from the second process_body(node.body) to process_body(node.orelse)
For_orelse ==
    /\ At("For_orelse")
    /\ LET entered(s1) ==
               /\ duc' = s1
               /\ Push(<<BodyItem(kont[1].node.orelse),
                         [op |-> "For_join", body_defs |-> kont[1].body_defs,
                          orelse_defs |-> FrameAt(s1, -1)]>>)
       IN entered(DefinitionContext_new(duc))
    /\ UNCHANGED module

\* visit_For, from process_body(node.orelse) to its end
For_join ==
    /\ At("For_join")
    /\ LET merged(s2, break_defs, continue_defs) ==
               extend_all(extend_all(extend_all(extend_all(s2,
                    kont[1].orelse_defs), continue_defs), break_defs), kont[1].body_defs)
           popped(s1) ==
               merged(DefinitionContext_exit([s1 EXCEPT !._breaks = Front(@),
                                                        !._continues = Front(@)]),
                      PyAt(s1._breaks, -1), PyAt(s1._continues, -1))
       IN Done(popped(DefinitionContext_exit(duc)))

\* visit_While, up to the first process_body(node.orelse)
visit_While ==
    /\ AtStmt("While")
    /\ LET node == kont[1].node
       IN /\ duc' = push_continues(push_breaks(
                        [DefinitionContext_copy(duc) EXCEPT !._undefs = Append(@, EmptyDict)]))
          /\ Push(<<BodyItem(node.orelse), [op |-> "While_body", node |-> node]>>)
    /\ UNCHANGED module

\* visit_While, from the first process_body(node.orelse) to the first process_body(node.body)
While_body ==
    /\ At("While_body")
    /\ LET node == kont[1].node
           entered(s1) ==
               /\ duc' = visit_expr(s1, node.test).s
               /\ Push(<<BodyItem(node.body),
                         [op |-> "While_second", node |-> node, body_defs |-> FrameAt(s1, -1)]>>)
       IN entered(DefinitionContext_copy(DefinitionContext_exit(duc)))
    /\ UNCHANGED module

\* visit_While, from the first process_body(node.body) to the second
While_second ==
    /\ At("While_second")
    /\ LET node == kont[1].node
       IN /\ duc' = visit_expr(loop_second_round(duc), node.test).s
          /\ Push(<<BodyItem(node.body), [kont[1] EXCEPT !.op = "While_orelse"]>>)
    /\ UNCHANGED module

\* visit_While, from the second process_body(node.body) to the last process_body(node.orelse)
While_orelse ==
    /\ At("While_orelse")
    /\ LET node == kont[1].node
           entered(s1) ==
               /\ duc' = s1
               /\ Push(<<BodyItem(node.orelse),
                         [op |-> "While_join", body_defs |-> kont[1].body_defs,
                          orelse_defs |-> FrameAt(s1, -1)]>>)
       IN entered(DefinitionContext_copy(visit_expr(duc, node.test).s))
    /\ UNCHANGED module

\* visit_While, from the last process_body(node.orelse) to its end
While_join ==
    /\ At("While_join")
    /\ LET popped(s1) ==
               extend_all(extend_all(extend_all(extend_all(
                    [s1 EXCEPT !._breaks = Front(@), !._continues = Front(@)],
                    PyAt(s1._continues, -1)), PyAt(s1._breaks, -1)),
                    kont[1].orelse_defs), kont[1].body_defs)
       IN Done(popped(DefinitionContext_exit(DefinitionContext_exit(duc))))

\* visit_Try, up to process_body(node.body); process_body(node.orelse) follows it
visit_Try ==
    /\ AtStmt("Try")
    /\ LET node == kont[1].node
           entered(s1) ==
               /\ duc' = s1
               /\ Push(<<BodyItem(node.body), BodyItem(node.orelse),
                         [op |-> "Try_failsafe", node |-> node,
                          failsafe_defs |-> FrameAt(s1, -1)]>>)
       IN entered(DefinitionContext_copy(duc))
    /\ UNCHANGED module

\* visit_Try, from the end of the with block to the loop over node.handlers
Try_failsafe ==
    /\ At("Try_failsafe")
    /\ duc' = extend_all(DefinitionContext_exit(duc), kont[1].failsafe_defs)
    /\ Push(<<[op |-> "Try_handlers", node |-> kont[1].node, i |-> 0]>>)
    /\ UNCHANGED module

\* visit_Try: one turn of the loop over node.handlers, up to the visit of the first
\* statement of the handler; after the last turn, process_body(node.finalbody).
\* The class of a handler is ExceptHandler and the analyzer has no visit_ExceptHandler
\* (its visit_excepthandler is never looked up), so self.visit(excepthandler) is
\* NodeVisitor.generic_visit: type, name and the statements of the body are visited one
\* after the other, without process_body.
Try_handlers ==
    /\ At("Try_handlers")
    /\ LET it == kont[1]
           entered(s1, node) ==
               /\ duc' = visit_opt(visit_opt(s1, node.type), node.name)
               /\ Push([i \in 1..Len(node.body) |-> VisitItem(node.body[i])] \o
                       <<[op |-> "Try_handler_exit", handler_def |-> FrameAt(s1, -1)],
                         [it EXCEPT !.i = @ + 1]>>)
       IN IF it.i < Len(it.node.handlers)
          THEN entered(DefinitionContext_new(duc), it.node.handlers[it.i + 1])
          ELSE /\ duc' = duc
               /\ Push(<<BodyItem(it.node.finalbody)>>)
    /\ UNCHANGED module

\* visit_Try: the end of a turn of the loop over node.handlers
Try_handler_exit ==
    /\ At("Try_handler_exit")
    /\ Done(extend_all(DefinitionContext_exit(duc), kont[1].handler_def))

\* the Def("__class__") a visit of the class creates: every visit creates a new one
NewClassCell(s, node) ==
    ClassCellDef(node, Cardinality({d \in DOMAIN s.users : d.kind = "str" /\ d.uid = node.uid}))

RECURSIVE visit_bases_at_once(_, _, _, _)
\* the loop of visit_ClassDef over node.bases, were the bases of a stub visited at
\* once like those of a module
visit_bases_at_once(s, node, i, dnode) ==
    IF i > Len(node.bases) THEN s
    ELSE visit_bases_at_once(visit_expr_for(s, node.bases[i], dnode), node, i + 1, dnode)

\* the loop of visit_ClassDef over node.bases, from the i-th on
RECURSIVE visit_bases(_, _, _, _)
visit_bases(s, node, i, dnode) ==
    IF i > Len(node.bases) THEN s
    ELSE visit_bases(IF s.is_stub
                     THEN [s EXCEPT !._defered_annotations[Len(s._defered_annotations)] =
                                       Append(@, AnnotationEntry(s, node.bases[i], dnode))]
                     ELSE visit_expr_for(s, node.bases[i], dnode),
                     node, i + 1, dnode)

\* visit_ClassDef, up to process_body(node.body)
visit_ClassDef ==
    /\ AtStmt("ClassDef")
    /\ LET node == kont[1].node
           celled(s3, cell) == set_definition(NewDef(s3, cell), "__class__", {cell}, -1)
           entered(s3) == celled(s3, NewClassCell(s3, node))
           declared(s1, dnode) ==
               entered(ScopeContext_enter(
                           visit_bases(add_to_locals(s1, node.name, dnode), node, 1, dnode),
                           node))
           created(s1) == declared(s1, s1.chains[node.uid])
       IN /\ duc' = created(chains_setdefault(duc, node))
          /\ Push(<<BodyItem(node.body), [op |-> "ClassDef_exit", node |-> node]>>)
    /\ UNCHANGED module

\* visit_ClassDef, from process_body(node.body) to its end
ClassDef_exit ==
    /\ At("ClassDef_exit")
    /\ LET node == kont[1].node
       IN Done(set_definition(ScopeContext_exit(duc), node.name, {duc.chains[node.uid]}, -1))

-----------------------------------------------------------------------------
(* The modules analyzed.  A statement is named by its source text; Stmt    *)
(* builds its AST with the uids of the position u it stands at.            *)

\* the literal 0
Zero(u) == Constant(10 * u + 2)

\* [a for a in 0 if (x := a)]
WalrusComp(u, id) ==
    ListComp(u, Name(10 * u + 2, "a", "Load"),
             <<comprehension(10 * u + 3, Name(100 * u + 31, "a", "Store"), Constant(100 * u + 32),
                             <<NamedExpr(100 * u + 33, id, Name(1000 * u + 332, "a", "Load"))>>)>>)

RECURSIVE Stmt(_, _)
Stmt(t, u) ==
    CASE t = "x = 0" -> Assign(u, "x", Zero(u))
      [] t = "len = 0" -> Assign(u, "len", Zero(u))
      [] t = "y = x" -> Assign(u, "y", Name(10 * u + 2, "x", "Load"))
      [] t = "x" -> Expr(u, Name(10 * u + 2, "x", "Load"))
      [] t = "x += 0" -> AugAssign(u, "x", Zero(u))
      [] t = "x: y = 0" -> AnnAssign(u, "x", Name(10 * u + 2, "y", "Load"), Constant(10 * u + 3))
      [] t = "global x" -> Global(u, <<"x">>)
      [] t = "nonlocal x" -> Nonlocal(u, <<"x">>)
      [] t = "raise" -> Raise(u, None)
      [] t = "break" -> Break(u)
      [] t = "continue" -> Continue(u)
      [] t = "return x" -> Return(u, Name(10 * u + 2, "x", "Load"))
      [] t = "import x" -> Import(u, <<"x">>)
      [] t = "from m import *" -> ImportFrom(u, <<"m">>, <<"*">>)
      [] t = "[a for a in 0 if (x := a)]" -> Expr(u, WalrusComp(10 * u + 2, "x"))
      [] t = "if 0: x = 0" -> If(u, Zero(u), <<Stmt("x = 0", 10 * u + 3)>>, <<>>)
      [] t = "if 0: break" -> If(u, Zero(u), <<Stmt("break", 10 * u + 3)>>, <<>>)
      [] t = "if 0: continue" -> If(u, Zero(u), <<Stmt("continue", 10 * u + 3)>>, <<>>)
      [] t = "for x in 0: break" ->
            For(u, "x", Zero(u), <<Stmt("break", 10 * u + 3)>>, <<>>)
      [] t = "def g(): nonlocal x; x = 0" ->
            FunctionDef(u, "g", <<>>,
                        <<Stmt("nonlocal x", 10 * u + 3), Stmt("x = 0", 10 * u + 4)>>, None)
      [] t = "def g(): return x" ->
            FunctionDef(u, "g", <<>>, <<Stmt("return x", 10 * u + 3)>>, None)
      [] t = "g()" -> Expr(u, Call(10 * u + 2, Name(100 * u + 21, "g", "Load"), <<>>))
      [] t = "y = lambda: x" ->
            Assign(u, "y", Lambda(10 * u + 2, <<>>, Name(100 * u + 22, "x", "Load")))
      [] t = "y = 0" -> Assign(u, "y", Zero(u))
      [] t = "def h(x): return x" ->
            FunctionDef(u, "h", <<Name(10 * u + 1, "x", "Param")>>,
                        <<Stmt("return x", 10 * u + 3)>>, None)
      [] t = "from __future__ import annotations" ->
            ImportFrom(u, <<"__future__">>, <<"annotations">>)
      [] t = "x: (lambda: y) = 0" ->
            AnnAssign(u, "x", Lambda(10 * u + 2, <<>>, Name(100 * u + 22, "y", "Load")),
                      Constant(10 * u + 3))
      [] t = "x: (y := 0) = 0" ->
            AnnAssign(u, "x", NamedExpr(10 * u + 2, "y", Constant(100 * u + 22)),
                      Constant(10 * u + 3))
      [] t = "def f() -> y: return x" ->
            FunctionDef(u, "f", <<>>, <<Stmt("return x", 10 * u + 3)>>,
                        Name(10 * u + 9, "y", "Load"))
      [] t = "class A(B): x = 0" ->
            ClassDef(u, "A", <<Name(10 * u + 1, "B", "Load")>>, <<Stmt("x = 0", 10 * u + 3)>>)
      [] t = "class A(lambda: B): x = 0" ->
            ClassDef(u, "A", <<Lambda(10 * u + 1, <<>>, Name(100 * u + 12, "B", "Load"))>>,
                     <<Stmt("x = 0", 10 * u + 3)>>)
      [] t = "class B: y = 0" -> ClassDef(u, "B", <<>>, <<Stmt("y = 0", 10 * u + 3)>>)
      [] t = "x: len = 0" ->
            AnnAssign(u, "x", Name(10 * u + 2, "len", "Load"), Constant(10 * u + 3))
      [] t = "y = len" -> Assign(u, "y", Name(10 * u + 2, "len", "Load"))
      [] t = "class A(len): x = 0" ->
            ClassDef(u, "A", <<Name(10 * u + 1, "len", "Load")>>, <<Stmt("x = 0", 10 * u + 3)>>)
      [] t = "class C: x = 0; def g(): nonlocal x; x = 0" ->
            ClassDef(u, "C", <<>>, <<Stmt("x = 0", 10 * u + 3),
                                     Stmt("def g(): nonlocal x; x = 0", 10 * u + 4)>>)
      [] t = "class C: def g(): nonlocal x; x = 0" ->
            ClassDef(u, "C", <<>>, <<Stmt("def g(): nonlocal x; x = 0", 10 * u + 3)>>)
      [] t = "class C: y = x; x = 0" ->
            ClassDef(u, "C", <<>>, <<Stmt("y = x", 10 * u + 3), Stmt("x = 0", 10 * u + 4)>>)
      [] t = "[b for b in 0 if x for x in 0]" ->
            Expr(u, ListComp(10 * u + 2, Name(100 * u + 22, "b", "Load"),
                    <<comprehension(100 * u + 23, Name(1000 * u + 231, "b", "Store"),
                                    Constant(1000 * u + 232),
                                    <<Name(1000 * u + 233, "x", "Load")>>),
                      comprehension(100 * u + 24, Name(1000 * u + 241, "x", "Store"),
                                    Constant(1000 * u + 242), <<>>)>>))
      [] t = "for i in 0: [x for x in x]" ->
            For(u, "i", Zero(u), <<Stmt("[x for x in x]", 10 * u + 3)>>, <<>>)
      [] t = "[a for a in x for x in a]" ->
            Expr(u, ListComp(10 * u + 2, Name(100 * u + 22, "a", "Load"),
                    <<comprehension(100 * u + 23, Name(1000 * u + 231, "a", "Store"),
                                    Name(1000 * u + 232, "x", "Load"), <<>>),
                      comprehension(100 * u + 24, Name(1000 * u + 241, "x", "Store"),
                                    Name(1000 * u + 242, "a", "Load"), <<>>)>>))
      [] t = "x: (await y) = 0" ->
            AnnAssign(u, "x", Await(10 * u + 2, Name(100 * u + 22, "y", "Load")),
                      Constant(10 * u + 3))
      [] t = "def f() -> (yield y): return x" ->
            FunctionDef(u, "f", <<>>, <<Stmt("return x", 10 * u + 3)>>,
                        Yield(10 * u + 9, Name(100 * u + 92, "y", "Load")))
      [] t = "(x := 0)" -> Expr(u, NamedExpr(10 * u + 2, "x", Constant(100 * u + 22)))
      [] t = "class D: x = 0" -> ClassDef(u, "D", <<>>, <<Stmt("x = 0", 10 * u + 3)>>)
      [] t = "class len: y = 0" -> ClassDef(u, "len", <<>>, <<Stmt("y = 0", 10 * u + 3)>>)
      [] t = "def f() -> len: return len" ->
            FunctionDef(u, "f", <<>>,
                        <<Return(10 * u + 3, Name(100 * u + 32, "len", "Load"))>>,
                        Name(10 * u + 9, "len", "Load"))
      [] t = "class C: [a for a in 0 if (x := a)]" ->
            ClassDef(u, "C", <<>>, <<Stmt("[a for a in 0 if (x := a)]", 10 * u + 3)>>)
      [] t = "def f(): [a for a in 0 if (x := a)]; return x" ->
            FunctionDef(u, "f", <<>>, <<Stmt("[a for a in 0 if (x := a)]", 10 * u + 3),
                                        Stmt("return x", 10 * u + 4)>>, None)
      [] t = "[x for x in x]" ->
            Expr(u, ListComp(10 * u + 2, Name(100 * u + 22, "x", "Load"),
                    <<comprehension(100 * u + 23, Name(1000 * u + 231, "x", "Store"),
                                    Name(1000 * u + 232, "x", "Load"), <<>>)>>))
      [] t = "[(a := 0) for a in 0]" ->
            Expr(u, ListComp(10 * u + 2, NamedExpr(100 * u + 22, "a", Constant(1000 * u + 222)),
                    <<comprehension(100 * u + 23, Name(1000 * u + 231, "a", "Store"),
                                    Constant(1000 * u + 232), <<>>)>>))
      [] t = "[a for a in (x := 0)]" ->
            Expr(u, ListComp(10 * u + 2, Name(100 * u + 22, "a", "Load"),
                    <<comprehension(100 * u + 23, Name(1000 * u + 231, "a", "Store"),
                                    NamedExpr(1000 * u + 232, "x", Constant(10000 * u + 2322)),
                                    <<>>)>>))
      [] t = "[[(x := a) for a in 0] for b in 0]" ->
            Expr(u, ListComp(10 * u + 2,
                    ListComp(100 * u + 22,
                        NamedExpr(1000 * u + 222, "x", Name(10000 * u + 2222, "a", "Load")),
                        <<comprehension(1000 * u + 223, Name(10000 * u + 2231, "a", "Store"),
                                        Constant(10000 * u + 2232), <<>>)>>),
                    <<comprehension(100 * u + 23, Name(1000 * u + 231, "b", "Store"),
                                    Constant(1000 * u + 232), <<>>)>>))
      [] t = "for j in 0: (if 0: break) else: x = 0; break" ->
            For(u, "j", Zero(u), <<Stmt("if 0: break", 10 * u + 3)>>,
                <<Stmt("x = 0", 10 * u + 6), Stmt("break", 10 * u + 7)>>)
      [] t = "[lambda: a for a in x]" ->
            Expr(u, ListComp(10 * u + 2,
                    Lambda(100 * u + 22, <<>>, Name(1000 * u + 222, "a", "Load")),
                    <<comprehension(100 * u + 23, Name(1000 * u + 231, "a", "Store"),
                                    Name(1000 * u + 232, "x", "Load"), <<>>)>>))

\* the statements named by tags, at the slots of the node u from `slot` on
Body(tags, u, slot) == [i \in DOMAIN tags |-> Stmt(tags[i], 10 * u + slot + i - 1)]

\* the sequences over S of a length from lo to hi
SeqsOf(S, lo, hi) == UNION {[1..n -> S] : n \in lo..hi}

\* what the analyzer is constructed with and handed: an AST, a filename, the flag
Input(ast, filename, future_annotations) ==
    [ast |-> ast, filename |-> filename, future_annotations |-> future_annotations]

\* straight-line module bodies
StraightLine ==
    {Input(Module(Body(tags, 0, 1)), "m.py", FALSE) :
        tags \in {t \in SeqsOf({"x = 0", "len = 0", "y = x", "x", "x += 0", "x: y = 0",
                                "global x", "raise", "import x", "from m import *",
                                "[a for a in 0 if (x := a)]", "def h(x): return x"}, 1, MaxModuleBody) :
                    \* a global declaration comes first, and not with an annotation
                    /\ \A i \in 2..Len(t) : t[i] # "global x"
                    /\ t[1] = "global x" => \A i \in 2..Len(t) : t[i] # "x: y = 0"}}

ArmStmts == {"x = 0", "y = x", "raise", "if 0: x = 0", "for x in 0: break",
             "[a for a in 0 if (x := a)]"}

\* [x = 0]; if 0: body else: orelse; x
Conditionals ==
    {Input(Module(Body(pre, 0, 1) \o
                  <<If(2, Zero(2), Body(body, 2, 3), Body(orelse, 2, 6))>> \o
                  Body(<<"x">>, 0, 3)), "m.py", FALSE) :
        pre \in SeqsOf({"x = 0"}, 0, 1),
        body \in SeqsOf(ArmStmts, 1, 1) \cup {<<"x = 0", "x = 0">>},
        orelse \in SeqsOf(ArmStmts, 0, 1)}
    \cup
    {Input(Module(<<If(1, Zero(1), Body(<<"global x", "x = 0">>, 1, 3), Body(orelse, 1, 6))>> \o
                  Body(<<"x">>, 0, 2)), "m.py", FALSE) :
        orelse \in SeqsOf(ArmStmts, 0, 1)}

LoopStmts == {"x = 0", "y = x", "x += 0", "break", "continue", "if 0: break",
              "if 0: continue", "if 0: x = 0"}

\* while 0: body else: orelse; x     and     for i in 0: body else: orelse; x
Loops ==
    {Input(Module(<<IF for THEN For(1, "i", Zero(1), Body(body, 1, 3), Body(orelse, 1, 6))
                    ELSE While(1, Zero(1), Body(body, 1, 3), Body(orelse, 1, 6))>> \o
                  Body(<<"x">>, 0, 2)), "m.py", FALSE) :
        for \in BOOLEAN, body \in SeqsOf(LoopStmts, 1, 2), orelse \in SeqsOf({"x = 0"}, 0, 1)}

\* the longest loop body of the family LoopReads
MaxLoopBody == 3

\* while 0: body     and     for i in 0: body, where the body reads, binds and leaves
LoopReads ==
    {Input(Module(<<IF for THEN For(1, "i", Zero(1), Body(body, 1, 3), <<>>)
                    ELSE While(1, Zero(1), Body(body, 1, 3), <<>>)>>), "m.py", FALSE) :
        for \in BOOLEAN,
        body \in SeqsOf({"y = x", "x = 0", "break", "continue", "if 0: break",
                         "if 0: continue"}, 3, MaxLoopBody)}

JoinStmts == {"x = 0", "y = x", "break", "continue", "if 0: break", "if 0: continue",
              "for j in 0: (if 0: break) else: x = 0; break"}

\* [x = 0]; while 0: body else: orelse; x     and the same with for i in 0
LoopJoins ==
    {Input(Module(Body(pre, 0, 1) \o
                  <<IF for THEN For(2, "i", Zero(2), Body(body, 2, 3), Body(orelse, 2, 6))
                    ELSE While(2, Zero(2), Body(body, 2, 3), Body(orelse, 2, 6))>> \o
                  Body(<<"x">>, 0, 3)), "m.py", FALSE) :
        pre \in SeqsOf({"x = 0"}, 0, 1), for \in BOOLEAN,
        body \in SeqsOf(JoinStmts, 1, 2), orelse \in SeqsOf({"x = 0"}, 0, 1)}

FunctionStmts == {"x = 0", "y = x", "x += 0", "global x", "return x", "g()",
                  "def g(): nonlocal x; x = 0", "def g(): return x", "y = lambda: x",
                  "if 0: x = 0"}

ClassStmts == {"x = 0", "y = x", "global x", "def g(): return x", "y = lambda: x"}

\* the bodies of a scope the compiler accepts: a global declaration comes first, and
\* nonlocal names a variable the enclosing function binds
ScopeBodies(S) ==
    {t \in SeqsOf(S, 1, 3) :
        /\ \A i \in 2..Len(t) : t[i] # "global x"
        /\ (\E i \in DOMAIN t : t[i] = "def g(): nonlocal x; x = 0") =>
                /\ t[1] # "global x"
                /\ \E i \in DOMAIN t : t[i] \in {"x = 0", "x += 0", "if 0: x = 0"}}

\* [x = 0]; def f(): body;  x      and the same with class f
Scopes ==
    {Input(Module(Body(pre, 0, 1) \o <<FunctionDef(2, "f", <<>>, Body(body, 2, 3), None)>> \o
                  Body(<<"x">>, 0, 3)), "m.py", FALSE) :
        pre \in SeqsOf({"x = 0"}, 0, 1), body \in ScopeBodies(FunctionStmts)}
    \cup
    {Input(Module(Body(pre, 0, 1) \o <<ClassDef(2, "f", <<>>, Body(body, 2, 3))>> \o
                  Body(<<"x">>, 0, 3)), "m.py", FALSE) :
        pre \in SeqsOf({"x = 0"}, 0, 1), body \in ScopeBodies(ClassStmts)}

\* [x = 0]; def f(): global x; body;  x      and the same with class f
GlobalScopes ==
    {Input(Module(Body(pre, 0, 1) \o
                  <<IF fn THEN FunctionDef(2, "f", <<>>, Body(<<"global x">> \o body, 2, 3), None)
                    ELSE ClassDef(2, "f", <<>>, Body(<<"global x">> \o body, 2, 3))>> \o
                  Body(<<"x">>, 0, 3)), "m.py", FALSE) :
        pre \in SeqsOf({"x = 0"}, 0, 1), fn \in BOOLEAN,
        body \in SeqsOf({"x = 0", "y = x", "import x", "class D: x = 0",
                         "def g(): return x", "[x for x in x]",
                         "for i in 0: [x for x in x]", "[a for a in 0 if (x := a)]"}, 1, 2)}

\* def f(): x = 0; def g(): nonlocal x; x = 0; ...
Rebinding ==
    {Input(Module(<<FunctionDef(1, "f", <<>>,
                                Body(<<"x = 0", "def g(): nonlocal x; x = 0">> \o rest, 1, 3),
                                None)>>), "m.py", FALSE) :
        rest \in SeqsOf({"g()", "return x", "x = 0"}, 1, 2)}

\* [x = 0]; def f(): x = 0; ..., where g declares x nonlocal in f or in a class of f,
\* and [x = 0]; def f(): def g(): nonlocal x; x = 0; raise; x = 0
NonlocalScopes ==
    {Input(Module(Body(pre, 0, 1) \o <<FunctionDef(2, "f", <<>>, Body(body, 2, 3), None)>>),
           "m.py", FALSE) :
        pre \in SeqsOf({"x = 0"}, 0, 1),
        body \in {<<"x = 0">> \o rest :
                    rest \in SeqsOf({"class C: x = 0; def g(): nonlocal x; x = 0",
                                     "class C: def g(): nonlocal x; x = 0",
                                     "def g(): nonlocal x; x = 0", "return x"}, 1, 2)}
                 \cup {<<"def g(): nonlocal x; x = 0", "raise", "x = 0">>}}

\* [x = 0]; def f(): body, where the body reads x and binds it later, or in a class or
\* a comprehension of the body
ReadsBefore ==
    {Input(Module(Body(pre, 0, 1) \o <<FunctionDef(2, "f", <<>>, Body(body, 2, 3), None)>>),
           "m.py", FALSE) :
        pre \in SeqsOf({"x = 0"}, 0, 1),
        body \in SeqsOf({"x = 0", "y = x", "y = len", "len = 0", "class C: y = x; x = 0",
                         "[a for a in 0 if (x := a)]", "[b for b in 0 if x for x in 0]"},
                        1, 2)}

\* [x = 0]; def f(): body      and the same with class f, where the body holds
\* comprehensions that read x in their first iterable and bind it, and assignment
\* expressions
ComprehensionScopes ==
    {Input(Module(Body(pre, 0, 1) \o
                  <<IF fn THEN FunctionDef(2, "f", <<>>, Body(body, 2, 3), None)
                    ELSE ClassDef(2, "f", <<>>, Body(body, 2, 3))>>), "m.py", FALSE) :
        pre \in SeqsOf({"x = 0"}, 0, 1), fn \in BOOLEAN,
        body \in SeqsOf({"x = 0", "[x for x in x]", "[a for a in x for x in a]",
                         "[b for b in 0 if x for x in 0]", "[lambda: a for a in x]",
                         "(x := 0)", "[a for a in 0 if (x := a)]"}, 1, 2)}

TryStmts == {"x = 0", "y = x", "raise"}

\* try: body except 0 [as x]: handler else: orelse finally: finalbody;  x
Handlers ==
    {Input(Module(<<Try(1, Body(body, 1, 1),
                        <<ExceptHandler(13, Constant(131),
                                        IF named THEN Name(132, "x", "Store") ELSE None,
                                        Body(handler, 13, 3))>>,
                        Body(orelse, 1, 5), Body(finalbody, 1, 7))>> \o
                  Body(<<"x">>, 0, 2)), "m.py", FALSE) :
        body \in SeqsOf(TryStmts, 1, 2), named \in BOOLEAN, handler \in SeqsOf(TryStmts, 1, 2),
        orelse \in SeqsOf({"x = 0"}, 0, 1), finalbody \in SeqsOf({"y = x"}, 0, 1)}

\* what the analyzer can be constructed with: (filename, future_annotations)
Modes == {<<"m.py", FALSE>>, <<"m.py", TRUE>>, <<"m.pyi", FALSE>>}

\* annotations and class bases, in a plain module, with annotations deferred, in a stub;
\* the __future__ import can only come first
Annotations ==
    {Input(Module(Body(tags, 0, 1)), mode[1], mode[2]) :
        tags \in {t \in SeqsOf({"x: y = 0", "y = 0", "x: (lambda: y) = 0",
                                "def f() -> y: return x", "class A(B): x = 0",
                                "class A(lambda: B): x = 0", "class B: y = 0",
                                "from __future__ import annotations"}, 1, MaxModuleBody) :
                    \A i \in 2..Len(t) : t[i] # "from __future__ import annotations"},
        mode \in Modes}

\* stubs that define and use a name of the builtins table
StubBuiltins ==
    {Input(Module(Body(tags, 0, 1)), "m.pyi", FALSE) :
        tags \in SeqsOf({"len = 0", "class len: y = 0", "x: len = 0", "y = len",
                         "class A(len): x = 0", "def f() -> len: return len"}, 1, 3)}

\* comprehensions and assignment expressions
Comprehensions ==
    {Input(Module(Body(tags, 0, 1)), "m.py", FALSE) :
        tags \in SeqsOf({"x = 0", "x", "[a for a in 0 if (x := a)]", "[x for x in x]",
                         "[[(x := a) for a in 0] for b in 0]", "[lambda: a for a in x]",
                         "def f(): [a for a in 0 if (x := a)]; return x"}, 1, MaxModuleBody)}

\* syntax the parser accepts and the compiler rejects: what the validators are for
Rejected ==
    {Input(Module(Body(tags, 0, 1)), mode[1], mode[2]) :
        tags \in SeqsOf({"[(a := 0) for a in 0]", "[a for a in (x := 0)]", "x: (y := 0) = 0",
                         "x: (await y) = 0", "def f() -> (yield y): return x",
                         "class C: [a for a in 0 if (x := a)]", "x"}, 1, 2),
        mode \in Modes}

Inputs ==
    StraightLine \cup Conditionals \cup Loops \cup LoopReads \cup LoopJoins \cup Scopes
        \cup GlobalScopes \cup NonlocalScopes \cup ReadsBefore \cup ComprehensionScopes
        \cup Rebinding
        \cup Handlers
        \cup Annotations \cup StubBuiltins \cup Comprehensions \cup Rejected

Init ==
    \E in \in Inputs :
        /\ module = in.ast
        /\ duc = DefUseChains(in.filename, in.future_annotations)
        /\ kont = <<[op |-> "visit_Module"]>>


-----------------------------------------------------------------------------
(* The analysis of one module.                                             *)

\* the visitors of the simple statements
SimpleStmt ==
    \/ visit_Expr \/ visit_Assign \/ visit_AugAssign \/ visit_AnnAssign
    \/ visit_Return \/ visit_Raise \/ visit_Break \/ visit_Continue
    \/ visit_Global \/ visit_Nonlocal \/ visit_Import \/ visit_ImportFrom
    \/ visit_FunctionDef

\* the visitors of the compound statements
CompoundStmt ==
    \/ visit_If \/ If_orelse \/ If_join
    \/ visit_For \/ For_second \/ For_orelse \/ For_join
    \/ visit_While \/ While_body \/ While_second \/ While_orelse \/ While_join
    \/ visit_Try \/ Try_failsafe \/ Try_handlers \/ Try_handler_exit
    \/ visit_ClassDef \/ ClassDef_exit

\* the deferred work and the end of visit_Module
Deferred ==
    \/ process_functions_bodies \/ SwitchScopeContext_exit
    \/ visit_FunctionDef_DefinitionStep \/ FunctionDef_exit
    \/ visit_Lambda_DefinitionStep
    \/ process_annotations \/ Module_exit

Next == visit_Module \/ process_body \/ SimpleStmt \/ CompoundStmt \/ Deferred

Spec == Init /\ [][Next]_vars

-----------------------------------------------------------------------------
(* Two analyzers, one after the other, on the same AST.                    *)

\* the frame of the caller: what it was given, a copy of the AST made before the
\* first run, and the first analyzer once it has returned
Caller(in) == [op |-> "caller", input |-> in, first |-> <<>>]

InitTwice ==
    \E in \in Inputs :
        /\ module = in.ast
        /\ duc = DefUseChains(in.filename, in.future_annotations)
        /\ kont = <<[op |-> "visit_Module"], Caller(in)>>

\* the first visit has returned: a fresh DefUseChains visits the same AST
visit_again ==
    /\ At("caller")
    /\ kont[1].first = <<>>
    /\ duc.raised = ""
    /\ duc' = DefUseChains(kont[1].input.filename, kont[1].input.future_annotations)
    /\ kont' = <<[op |-> "visit_Module"], [kont[1] EXCEPT !.first = <<duc>>]>>
    /\ UNCHANGED module

NextTwice == Next \/ visit_again

SpecTwice == InitTwice /\ [][NextTwice]_vars

-----------------------------------------------------------------------------
(* The import resolver, parse_import, on its own.  A str is the sequence of *)
(* its characters, so that splitting at the dots and joining with dots are *)
(* computed; the aliases of a statement are objects, told apart by their   *)
(* position in node.names.                                                 *)

\* largest level of a relative import
MaxLevel == 3

RECURSIVE split(_)
\* str.split("."): the pieces between the dots
split(str) ==
    IF \A i \in DOMAIN str : str[i] # "." THEN <<str>>
    ELSE LET i == CHOOSE i \in DOMAIN str : str[i] = "." /\ \A j \in 1..(i - 1) : str[j] # "."
         IN <<SubSeq(str, 1, i - 1)>> \o split(SubSeq(str, i + 1, Len(str)))

RECURSIVE join(_)
\* ".".join(parts)
join(parts) ==
    IF parts = <<>> THEN <<>>
    ELSE IF Len(parts) = 1 THEN parts[1]
    ELSE parts[1] \o <<".">> \o join(Tail(parts))

\* None where a str is expected: no str of the model has such a character
NoStr == <<"None">>

\* ImportInfo(orgmodule, orgname)
ImportInfo(orgmodule, orgname) == [orgmodule |-> orgmodule, orgname |-> orgname]

\* the relative_module of parse_import, always the one of a plain module
relative_module_of_module(current_module, level, is_package) ==
    LET dropped == PySlice(current_module, 0, -level)
    IN IF dropped = <<>> THEN [i \in 1..level |-> <<>>] ELSE dropped

\* the relative_module of parse_import: what the level leaves of the current module,
\* padded when nothing is left
relative_module(current_module, level, is_package) ==
    LET dropped ==
            IF level = 1
            THEN IF is_package THEN current_module ELSE PySlice(current_module, 0, -1)
            ELSE IF is_package THEN PySlice(current_module, 0, 1 - level)
                 ELSE PySlice(current_module, 0, -level)
    IN IF dropped = <<>> THEN [i \in 1..level |-> <<>>] ELSE dropped

\* parse_import(node, modname, is_package): [raised |-> "" or the exception,
\* result |-> the ImportInfo of every alias]; an asname of None is the empty str
parse_import(node, modname, is_package) ==
    LET returned(result) == [raised |-> "", result |-> result]
        imported(al) ==
            IF al.asname # <<>> THEN ImportInfo(al.name, NoStr)
            ELSE ImportInfo(split(al.name)[1], NoStr)
        current_module == split(modname)
        mod == IF node.module = NoStr THEN <<>> ELSE split(node.module)
        source_module ==
            IF node.level = 0 THEN mod
            ELSE relative_module(current_module, node.level, is_package) \o mod
    IN CASE node.k = "Import" ->
                returned([i \in DOMAIN node.names |-> imported(node.names[i])])
         [] node.k = "ImportFrom" ->
                returned([i \in DOMAIN node.names |->
                            ImportInfo(join(source_module), node.names[i].name)])
         [] OTHER -> [raised |-> "TypeError", result |-> <<>>]

\* the str of a few dotted names
StrOf(text) ==
    CASE text = "" -> <<>>
      [] text = "a" -> <<"a">>
      [] text = "a.b" -> <<"a", ".", "b">>
      [] text = "a.b.c" -> <<"a", ".", "b", ".", "c">>
      [] text = "*" -> <<"*">>
      [] text = "x" -> <<"x">>
      [] text = "m" -> <<"m">>
      [] text = "m.n" -> <<"m", ".", "n">>
      [] text = "p" -> <<"p">>
      [] text = "p.q" -> <<"p", ".", "q">>
      [] text = "p.q.r" -> <<"p", ".", "q", ".", "r">>

\* the aliases of an import statement: one or two of them
ImportAliases ==
    LET one == {[name |-> StrOf(n), asname |-> StrOf(a)] :
                    n \in {"a", "a.b", "a.b.c"}, a \in {"", "x"}}
    IN {<<al>> : al \in one} \cup {<<al1, al2>> : al1 \in one, al2 \in {al \in one : al.asname = <<>>}}

\* the aliases of a from-import: imported names, or the wildcard
FromAliases ==
    LET one == {[name |-> StrOf(n), asname |-> StrOf(a)] : n \in {"a", "*"}, a \in {"", "x"}}
    IN {<<al>> : al \in one} \cup {<<al1, al2>> : al1 \in one, al2 \in {al \in one : al.asname = <<>>}}

\* the calls of parse_import: the node, the name of the module and the package flag
ImportCalls ==
    LET nodes ==
            {[k |-> "Import", names |-> names] : names \in ImportAliases}
                \cup {[k |-> "ImportFrom", names |-> names, module |-> m, level |-> level] :
                        names \in FromAliases,
                        m \in {NoStr, StrOf("m"), StrOf("m.n")},
                        level \in 0..MaxLevel}
                \cup {[k |-> "Expr"], [k |-> "alias"]}
    IN {[node |-> node, modname |-> StrOf(modname), is_package |-> is_package] :
            node \in nodes, modname \in {"", "p", "p.q", "p.q.r"}, is_package \in BOOLEAN}

\* a call of parse_import is about to be made: `module` holds its arguments
InitImports ==
    /\ module \in ImportCalls
    /\ duc = None
    /\ kont = <<[op |-> "parse_import"]>>

\* the call: `duc` holds what it returns or raises
parse_import_call ==
    /\ At("parse_import")
    /\ duc' = parse_import(module.node, module.modname, module.is_package)
    /\ Pop
    /\ UNCHANGED module

NextImports == parse_import_call

SpecImports == InitImports /\ [][NextImports]_vars

-----------------------------------------------------------------------------
(* What the properties below speak of.                                     *)

\* visit_Module has returned
Returned == kont = <<>> /\ duc.raised = ""

\* the Defs a visited Name node resolved to: the Defs of definitions that have its Def
\* as a user (the Def of the value of an augmented assignment has the target as a user
\* too, and is the Def of an expression)
ResolvedTo(node) ==
    {d \in DOMAIN duc.users :
        /\ Def(node) \in duc.users[d]
        /\ d.kind \in {"Name", "alias", "FunctionDef", "ClassDef", "builtin", "str"}}

\* d is in self.locals[scope], scope the uid of a scope node
IsLocal(scope, d) == InLocals(duc, [uid |-> scope], d)

\* the names the global statements of a scope declare: those of its own statements,
\* not of the scopes nested in it
RECURSIVE DeclaredIn(_)
DeclaredIn(stmts) ==
    UNION {LET node == stmts[i]
           IN CASE node.k = "Global" -> {node.names[n] : n \in DOMAIN node.names}
                [] node.k \in {"If", "While", "For"} -> DeclaredIn(node.body \o node.orelse)
                [] node.k = "Try" ->
                      DeclaredIn(node.body \o node.orelse \o node.finalbody) \cup
                      UNION {DeclaredIn(node.handlers[h].body) : h \in DOMAIN node.handlers}
                [] OTHER -> {}
           : i \in DOMAIN stmts}

\* a binding site: the node that binds, the scope that lexically encloses it, whether
\* a global statement in force declares its name, and the first enclosing scope that
\* is no comprehension
Site(node, role, sc, gl, ho) ==
    [uid |-> node.uid, name |-> NodeName(node), role |-> role, scope |-> sc.uid,
     declared |-> NodeName(node) \in gl, hoist |-> ho]

\* an annotation the analyzer puts on the queue and the validator rejects is not visited
Annotation(x) ==
    IF x = None \/ (duc.future_annotations /\ validate_annotation_body(x) # "") THEN <<>>
    ELSE <<x>>

RECURSIVE Sites(_, _, _, _)
\* the binding sites below a node that the analyzer visits; sc, gl and ho are those of
\* the node.  The body of a function runs with the global statements of the module
\* and its own; a class body and a comprehension add theirs to those in force.
Sites(node, sc, gl, ho) ==
    LET all(children, sc1, gl1, ho1) ==
            UNION {Sites(children[i], sc1, gl1, ho1) : i \in DOMAIN children}
        same(children) == all(children, sc, gl, ho)
        bound(target, role) == {Site(target, role, sc, gl, ho)}
        own == ScopeRef(node)
        deferred(body) ==
            LET inforce == DeclaredIn(module.body) \cup DeclaredIn(body)
            IN {Site(node.args[i], "param", own, inforce, own) : i \in DOMAIN node.args}
                    \cup all(body, own, inforce, own)
    IN CASE node.k = "Assign" -> bound(node.target, "store") \cup same(<<node.value>>)
         [] node.k = "AnnAssign" ->
                bound(node.target, "store")
                    \cup same(Annotation(node.annotation) \o Opt(node.value))
         [] node.k = "AugAssign" -> bound(node.target, "aug") \cup same(<<node.value>>)
         [] node.k = "NamedExpr" -> bound(node.target, "walrus") \cup same(<<node.value>>)
         [] node.k \in {"For", "comprehension"} ->
                bound(node.target, "store") \cup same(Tail(Children(node)))
         [] node.k = "ExceptHandler" ->
                (IF node.name = None THEN {} ELSE bound(node.name, "store"))
                    \cup same(Opt(node.type) \o node.body)
         [] node.k \in {"Import", "ImportFrom"} ->
                {Site(node.names[i], "alias", sc, gl, ho) : i \in DOMAIN node.names}
         [] node.k = "FunctionDef" ->
                bound(node, "def") \cup same(Annotation(node.returns))
                    \cup deferred(node.body)
         [] node.k = "Lambda" -> deferred(<<node.body>>)
         [] node.k = "ClassDef" ->
                bound(node, "def") \cup same(node.bases)
                    \cup all(node.body, own, gl \cup DeclaredIn(node.body), own)
         [] node.k = "ListComp" ->
                IF validate_comprehension(node) # "" THEN {}
                ELSE all(Children(node), own, gl, ho)
         [] OTHER -> same(Children(node))

\* the binding sites of the module
BindingSites ==
    UNION {Sites(module.body[i], ScopeRef(module), DeclaredIn(module.body), ScopeRef(module)) :
            i \in DOMAIN module.body}

\* no name of the module comes from a wildcard import
NoWildcardImport == \A n \in Walk(module) : n.k = "alias" => n.name # <<"*">>

\* the Def of a binding site is in no self.locals but, perhaps, that of the module
OnlyModuleLocal(d) == \A scope \in DOMAIN duc.locals : scope # module.uid => ~IsLocal(scope, d)

-----------------------------------------------------------------------------
(* C1: binding sites and self.locals.                                      *)

\* C1 as stated: after visit_Module has returned, every binding site has a Def in
\* self.chains and that Def is in self.locals of the scope that lexically encloses
\* the site (for the target of an assignment expression: of the scope it binds in).
C1_EveryBindingSiteIsLocal ==
    Returned =>
        \A b \in BindingSites :
            /\ b.uid \in DOMAIN duc.chains
            /\ IsLocal(IF b.role = "walrus" THEN b.hoist.uid ELSE b.scope, duc.chains[b.uid])

\* C1, amended: after visit_Module has returned every binding site has a Def in
\* self.chains.  The Def of a store-context name, a parameter, an import alias or a
\* function or class header whose name no global statement in force declares is in
\* self.locals of the enclosing scope, also when the site follows a break, a continue
\* or a raise.  The Def of an assignment-expression target is in self.locals of the
\* first enclosing scope that is no comprehension, and in none when that scope is a
\* class and the target sits in a comprehension.  The Def of a site whose name is
\* declared global is in no self.locals but, perhaps, the module's; the Def of an
\* augmented-assignment target is in no self.locals at all, unless its name is
\* declared global or the module has a wildcard import.
C1_BindingSitesAndLocals ==
    Returned =>
        \A b \in BindingSites :
            /\ b.uid \in DOMAIN duc.chains
            /\ LET d == duc.chains[b.uid]
                   hoisted == b.hoist.uid # b.scope
               IN /\ b.role \in {"store", "param", "alias", "def"} /\ ~b.declared
                        => IsLocal(b.scope, d)
                  /\ b.role = "walrus" /\ ~b.declared =>
                        /\ hoisted => ~IsLocal(b.scope, d)
                        /\ IF hoisted /\ b.hoist.k = "ClassDef"
                           THEN \A scope \in DOMAIN duc.locals : ~IsLocal(scope, d)
                           ELSE IsLocal(b.hoist.uid, d)
                  /\ b.declared => OnlyModuleLocal(d)
                  /\ b.role = "aug" /\ ~b.declared /\ NoWildcardImport
                        => \A scope \in DOMAIN duc.locals : ~IsLocal(scope, d)

\* C1's case happens: visit_Module has returned, and a binding that follows a break
\* is a local of the module
C1_Witness ==
    /\ Returned
    /\ module.body[1].k = "While"
    /\ Len(module.body[1].body) = 2
    /\ module.body[1].body[1].k = "Break"
    /\ module.body[1].body[2].k = "Assign"
    /\ IsLocal(module.uid, Def(module.body[1].body[2].target))

-----------------------------------------------------------------------------
(* C2: liveness.                                                           *)

\* C2: a Def that is not live at the end of the analysis is not in the definition frame
\* of its scope when the scope is closed; islive never turns from False to True, so at
\* the exit of the module's ScopeContext every Def of the module frame is live.
C2_DeadDefNotInClosingFrame ==
    At("Module_exit") =>
        \A name \in Keys(duc, FrameAt(duc, -1)) :
            \A d \in Get(duc, FrameAt(duc, -1), name) : duc.islive[d]

-----------------------------------------------------------------------------
(* C3: visit_Module raises nothing.                                        *)

\* C3: visit_Module returns without raising (every module of the inputs but those of
\* Rejected is one the compiler accepts, and the analysis of those of Rejected
\* raises nothing)
C3_NeverRaises == duc.raised = ""

-----------------------------------------------------------------------------
(* C4: the stacks.                                                         *)

\* the DefinitionContexts and ScopeContexts a pending step has still to leave
OpenContexts(item) ==
    CASE item.op \in {"For_join", "While_join"} -> 2
      [] item.op \in {"If_orelse", "If_join", "For_second", "For_orelse", "While_body",
                      "While_second", "While_orelse", "Try_failsafe", "Try_handler_exit",
                      "FunctionDef_exit", "ClassDef_exit", "Module_exit"} -> 1
      [] OTHER -> 0

\* the steps that leave a ScopeContext
IsScopeExit(item) == item.op \in {"FunctionDef_exit", "ClassDef_exit", "Module_exit"}

\* the steps of a loop that has its entries on self._breaks and self._continues
IsInLoop(item) ==
    item.op \in {"For_second", "For_orelse", "For_join", "While_body", "While_second",
                 "While_orelse", "While_join"}

\* the steps of a loop before its process_undefs
IsBeforeUndefs(item) == item.op \in {"For_second", "While_body", "While_second"}

RECURSIVE OpenContextsOf(_)
OpenContextsOf(items) ==
    IF items = <<>> THEN 0 ELSE OpenContexts(Head(items)) + OpenContextsOf(Tail(items))

\* how many of the items satisfy P
HowMany(items, P(_)) == Cardinality({i \in DOMAIN items : P(items[i])})

\* the pending steps of the body that is being visited: all of them while the module
\* body is, those above the exit of SwitchScopeContext while a deferred body is
Switched == {i \in DOMAIN kont : kont[i].op = "SwitchScopeContext_exit"}

Pending ==
    IF Switched = {} THEN kont ELSE SubSeq(kont, 1, (CHOOSE i \in Switched : TRUE) - 1)

\* the stacks that body started with: none for the module, those SwitchScopeContext
\* installed for a deferred body
Entered ==
    IF Switched = {}
    THEN [defs |-> <<>>, scopes |-> <<>>, scope_depths |-> <<>>, precomputed_locals |-> <<>>]
    ELSE LET entry == duc._defered[kont[(CHOOSE i \in Switched : TRUE) + 1].i]
         IN [defs |-> entry.defs, scopes |-> entry.scopes,
             scope_depths |-> entry.scope_depths,
             precomputed_locals |-> entry.precomputed_locals]

\* the pending steps of the innermost scope
RECURSIVE InnermostScope(_)
InnermostScope(items) ==
    IF items = <<>> \/ IsScopeExit(Head(items)) THEN <<>>
    ELSE <<Head(items)>> \o InnermostScope(Tail(items))

\* stack is what it was at the start, with n new entries on top
Grown(stack, start, n) ==
    /\ Len(stack) = Len(start) + n
    /\ SubSeq(stack, 1, Len(start)) = start

-----------------------------------------------------------------------------
(* C5: the order of the deferred work.                                     *)

\* the definition step of a deferred function or lambda has run: some node of its body
\* has a Def in self.chains (a body without such a node counts as run)
HasRun(node) ==
    LET inside == UNION {Walk(n) : n \in IF node.k = "Lambda" THEN {node.body}
                                          ELSE {node.body[i] : i \in DOMAIN node.body}}
        visitable == {n \in inside : n.k \in {"Name", "Constant"}}
    IN visitable # {} => \E n \in visitable : n.uid \in DOMAIN duc.chains

\* C5: no deferred annotation is resolved before every deferred body has run: when
\* process_annotations is about to resolve an annotation, every entry of self._defered
\* has had its definition step
C5_AnnotationsAfterBodies ==
    At("process_annotations") /\ kont[1].i < Len(PyAt(duc._defered_annotations, -1))
        => \A j \in DOMAIN duc._defered : HasRun(duc._defered[j].node)

-----------------------------------------------------------------------------
(* C6: overwriting.                                                        *)

\* the statement lists that are the body of a scope
Bodies ==
    {module.body} \cup {n.body : n \in {m \in Walk(module) : m.k \in {"FunctionDef", "ClassDef"}}}

\* the node whose Def a statement installs for a name with nothing in between: the
\* target of an assignment, the alias of an import that names what it imports, a
\* function or a class; None for the other statements
Binder(stmt) ==
    CASE stmt.k \in {"Assign", "AugAssign", "AnnAssign"} -> stmt.target
      [] stmt.k \in {"Import", "ImportFrom"} ->
            IF stmt.names[1].name = <<"*">> THEN None ELSE stmt.names[1]
      [] stmt.k \in {"FunctionDef", "ClassDef"} -> stmt
      [] OTHER -> None

\* the statement binds the name
Binds(stmt, name) == Binder(stmt) # None /\ NodeName(Binder(stmt)) = name

\* the statement holds a node that binds the name, at any depth
MayBind(stmt, name) ==
    \E n \in Walk(stmt) :
        \/ n.k = "Name" /\ n.ctx # "Load" /\ n.id = name
        \/ n.k \in {"FunctionDef", "ClassDef", "alias"} /\ NodeName(n) = name

\* the reads of the name that the scope of a statement makes when the statement runs:
\* none is looked at in a statement that holds a scope of its own
ReadsOf(stmt, name) ==
    IF \E n \in Walk(stmt) : n.k \in {"FunctionDef", "ClassDef", "Lambda", "ListComp"}
    THEN {}
    ELSE {n \in Walk(stmt) : /\ n.k = "Name" /\ n.id = name
                             /\ n.ctx = "Load" \/ (stmt.k = "AugAssign" /\ n = stmt.target)}

\* statement i of the list is not dead code of the list
Executed(stmts, i) ==
    \A j \in 1..(i - 1) : stmts[j].k \notin {"Break", "Continue", "Raise"}

\* a global statement in force declares the name the binding site binds
Declared(node) == \E b \in BindingSites : b.uid = node.uid /\ b.declared

\* the read r of statement k of the list is resolved when the module ends: it is in an
\* annotation, and annotations are deferred
IsDeferredRead(stmts, k, r) ==
    /\ duc.future_annotations
    /\ stmts[k].k = "AnnAssign"
    /\ r \in Walk(stmts[k].annotation)

\* the statements after the i-th that can bind a name before the read r of statement k
\* is resolved
BoundBefore(stmts, i, k, r) ==
    IF IsDeferredRead(stmts, k, r) THEN (i + 1)..Len(stmts) ELSE (i + 1)..(k - 1)

\* C6 for the statements i and i + 1 of a body, both binding the name of `first`
Overwritten(stmts, i, first, second) ==
    /\ ~duc.islive[Def(first)]
    /\ \A k \in (i + 2)..Len(stmts) :
            \A r \in ReadsOf(stmts[k], NodeName(first)) :
                /\ Def(first) \notin ResolvedTo(r)
                /\ (\A j \in BoundBefore(stmts, i + 1, k, r) :
                            ~MayBind(stmts[j], NodeName(first)))
                        => ResolvedTo(r) = {Def(second)}

\* C6 as stated: of two bindings of a name that are executed one after the other in the
\* body of a scope, the second marks the Def of the first as not live, and no later
\* read of the name in that body resolves to the first; it resolves to the second
\* alone as long as nothing else binds the name before the read is resolved
C6_Overwrite ==
    Returned =>
        \A stmts \in Bodies : \A i \in 1..(Len(stmts) - 1) :
            Executed(stmts, i + 1) /\ Binder(stmts[i]) # None
                    /\ Binds(stmts[i + 1], NodeName(Binder(stmts[i])))
                => Overwritten(stmts, i, Binder(stmts[i]), Binder(stmts[i + 1]))

\* C6, amended: the same, for a name that no global statement in force declares
C6_OverwriteUnlessGlobal ==
    Returned =>
        \A stmts \in Bodies : \A i \in 1..(Len(stmts) - 1) :
            Executed(stmts, i + 1) /\ Binder(stmts[i]) # None
                    /\ Binds(stmts[i + 1], NodeName(Binder(stmts[i])))
                    /\ ~Declared(Binder(stmts[i]))
                => Overwritten(stmts, i, Binder(stmts[i]), Binder(stmts[i + 1]))

\* C6's case happens: the module is two bindings of a name and a read of it, and the
\* read has resolved to the second binding
C6_Witness ==
    /\ Returned
    /\ Len(module.body) = 3
    /\ module.body[1].k = "Assign" /\ module.body[2].k = "Assign"
    /\ module.body[3].k = "Expr" /\ module.body[3].value.k = "Name"
    /\ module.body[1].target.id = module.body[3].value.id
    /\ ResolvedTo(module.body[3].value) = {Def(module.body[2].target)}

-----------------------------------------------------------------------------
(* C7: the join of an if statement.                                        *)

\* a statement without a block and without a scope of its own
IsDirect(stmt) ==
    /\ stmt.k \in {"Assign", "AugAssign", "AnnAssign", "Expr", "Return", "Raise", "Break",
                   "Continue", "Global", "Import", "ImportFrom"}
    /\ \A n \in Walk(stmt) : n.k \notin {"Lambda", "ListComp", "NamedExpr"}

\* the statements of the list bind the name, if they do, by statements that are direct
BindDirectly(stmts, name) ==
    \A j \in DOMAIN stmts : MayBind(stmts[j], name) => IsDirect(stmts[j])

\* the statements of the list that bind the name and are executed
BindersIn(stmts, name) == {j \in DOMAIN stmts : Binds(stmts[j], name) /\ Executed(stmts, j)}

\* the Defs of the name that reach the end of a list of statements that bind directly:
\* that of the last binding executed
Reaching(stmts, name) ==
    IF BindersIn(stmts, name) = {} THEN {}
    ELSE {Def(Binder(stmts[CHOOSE j \in BindersIn(stmts, name) :
                                \A l \in BindersIn(stmts, name) : l <= j]))}

\* C7 speaks of the if statement stmts[i] and the name: the arms and the statements
\* before it bind the name directly, and in the body of a function or a class the
\* name is one that no global statement declares
IsJoin(stmts, i, name) ==
    /\ i \in DOMAIN stmts
    /\ stmts[i].k = "If"
    /\ Executed(stmts, i)
    /\ BindDirectly(stmts[i].body, name) /\ BindDirectly(stmts[i].orelse, name)
    /\ BindDirectly(SubSeq(stmts, 1, i - 1), name)
    /\ stmts # module.body => name \notin DeclaredIn(module.body) \cup DeclaredIn(stmts)

\* what C7 says the name holds after the if statement stmts[i]
Joined(stmts, i, name) ==
    LET body == Reaching(stmts[i].body, name)
        orelse == Reaching(stmts[i].orelse, name)
    IN IF body # {} /\ orelse # {} THEN body \cup orelse
       ELSE body \cup orelse \cup Reaching(SubSeq(stmts, 1, i - 1), name)

-----------------------------------------------------------------------------
(* C8: the target of an assignment expression in a comprehension.          *)

\* the targets of the assignment expressions that sit in a comprehension, the scope
\* they bind in not being a class
Hoisted ==
    {b \in BindingSites : b.role = "walrus" /\ b.hoist.uid # b.scope /\ b.hoist.k # "ClassDef"}

\* the Def of the target b
TargetDef(b) == Def([k |-> "Name", uid |-> b.uid, id |-> b.name])

\* those a statement holds
HoistedIn(stmt) == {b \in Hoisted : \E n \in Walk(stmt) : n.uid = b.uid}

\* the Defs of the iteration variables of the comprehensions
IterationDefs ==
    {Def(n.target) : n \in {m \in Walk(module) : m.k = "comprehension"}}

\* the definition frames that hold an iteration variable: those of comprehensions
ComprehensionFrames ==
    {f \in DOMAIN duc.frames :
        \E name \in Keys(duc, f) : Get(duc, f, name) \cap IterationDefs # {}}

\* an expression statement whose comprehension binds the name by an assignment
\* expression
IsHoisting(stmt, b) == stmt.k = "Expr" /\ b \in HoistedIn(stmt)

\* C8 for the Def of the target b, when visit_Module has returned: it is a local of the
\* first enclosing scope that is no comprehension and of no comprehension, no frame of
\* a comprehension holds it, and a read that follows the comprehension, or the if
\* statement it is in, resolves to it
HoistedEverywhere(b) ==
    /\ IsLocal(b.hoist.uid, TargetDef(b))
    /\ \A n \in Walk(module) :
            n.k = "ListComp" => ~IsLocal(n.uid, TargetDef(b))
    /\ \A f \in ComprehensionFrames :
            TargetDef(b) \notin Get(duc, f, b.name)
    /\ \A stmts \in Bodies : \A i \in 1..(Len(stmts) - 1) :
            /\ Executed(stmts, i + 1)
            /\ \/ IsHoisting(stmts[i], b)
               \/ /\ stmts[i].k = "If"
                  /\ \E j \in DOMAIN stmts[i].body :
                        /\ IsHoisting(stmts[i].body[j], b) /\ Executed(stmts[i].body, j)
                        /\ \A l \in (j + 1)..Len(stmts[i].body) :
                                ~MayBind(stmts[i].body[l], b.name)
            => \A r \in ReadsOf(stmts[i + 1], b.name) :
                    TargetDef(b) \in ResolvedTo(r)

\* C8 for the Defs of the given targets, when the statement that holds one has been
\* visited: the current definition frame holds it
HoistedInFrame(targets) ==
    At("process_body") /\ kont[1].i >= 1 /\ duc._deadcode = 0 =>
        \A b \in targets :
            IsHoisting(kont[1].stmts[kont[1].i], b) =>
                TargetDef(b)
                    \in Get(duc, FrameAt(duc, -1), b.name)

\* C8 as stated: the Def of the target of every assignment expression that sits in a
\* comprehension is in the current definition frame and in self.locals of the first
\* enclosing scope that is no comprehension, in no frame and no self.locals of a
\* comprehension, and a read after the comprehension resolves to it
C8_WalrusHoisting ==
    /\ HoistedInFrame(Hoisted)
    /\ Returned => \A b \in Hoisted : HoistedEverywhere(b)

\* C8, amended: the same for the targets whose name no global statement in force
\* declares
C8_WalrusHoistingUnlessGlobal ==
    /\ HoistedInFrame({b \in Hoisted : ~b.declared})
    /\ Returned => \A b \in Hoisted : ~b.declared => HoistedEverywhere(b)

\* C8's case happens: visit_Module has returned, the read that follows an if statement
\* whose body is such a comprehension has resolved to the target, and the Def of the
\* target is a local of the module
C8_Witness ==
    /\ Returned
    /\ Len(module.body) = 2
    /\ module.body[1].k = "If"
    /\ \E b \in Hoisted :
            /\ IsHoisting(module.body[1].body[1], b)
            /\ module.body[2].k = "Expr" /\ module.body[2].value.k = "Name"
            /\ TargetDef(b) \in ResolvedTo(module.body[2].value)
            /\ IsLocal(module.uid, TargetDef(b))

-----------------------------------------------------------------------------
(* C9: nonlocal.                                                           *)

\* def f(): x = 0; def g(): nonlocal x; x = 0;  g(); return x
IsRebinding(f) ==
    /\ f.k = "FunctionDef" /\ Len(f.body) = 4
    /\ f.body[1].k = "Assign"
    /\ f.body[2].k = "FunctionDef" /\ Len(f.body[2].body) = 2
    /\ f.body[2].body[1].k = "Nonlocal" /\ f.body[2].body[1].names = <<f.body[1].target.id>>
    /\ f.body[2].body[2].k = "Assign" /\ f.body[2].body[2].target.id = f.body[1].target.id
    /\ f.body[3].k = "Expr" /\ f.body[3].value.k = "Call"
    /\ f.body[3].value.func.id = f.body[2].name
    /\ f.body[4].k = "Return" /\ f.body[4].value.k = "Name"
    /\ f.body[4].value.id = f.body[1].target.id

\* C9: when f binds x, declares g, which rebinds x after `nonlocal x`, calls g and reads
\* x, the read resolves to the assignment of f and to that of g, and the Def of the
\* assignment of f is not live
C9_NonlocalRebinding ==
    Returned =>
        \A i \in DOMAIN module.body :
            IsRebinding(module.body[i]) =>
                /\ ResolvedTo(module.body[i].body[4].value) =
                        {Def(module.body[i].body[1].target),
                         Def(module.body[i].body[2].body[2].target)}
                /\ ~duc.islive[Def(module.body[i].body[1].target)]

-----------------------------------------------------------------------------
(* C10: the bases of the classes of a stub.                                *)

\* module.body[i] is a class whose first base names the class module.body[j], which
\* comes later and is the last statement of the module to bind that name
IsForwardBase(i, j) ==
    /\ i < j
    /\ module.body[i].k = "ClassDef" /\ module.body[j].k = "ClassDef"
    /\ module.body[i].bases # <<>>
    /\ module.body[i].bases[1].k = "Name"
    /\ module.body[i].bases[1].id = module.body[j].name
    /\ \A l \in (j + 1)..Len(module.body) : ~MayBind(module.body[l], module.body[j].name)

\* C10: in a stub, the base of a class that names a class defined later in the module
\* resolves to the Def of that class, the Def of the base has the Def of the subclass
\* as a user, and no warning is emitted for the base
C10_StubForwardBase ==
    Returned /\ duc.is_stub =>
        \A i \in DOMAIN module.body : \A j \in DOMAIN module.body :
            IsForwardBase(i, j) =>
                /\ ResolvedTo(module.body[i].bases[1]) = {Def(module.body[j])}
                /\ Def(module.body[i]) \in duc.users[duc.chains[module.body[i].bases[1].uid]]
                /\ \A w \in DOMAIN duc.warnings :
                        duc.warnings[w].uid # module.body[i].bases[1].uid

\* C10's case happens: visit_Module has returned from a stub whose first class has the
\* second one as its base, and the base has resolved
C10_Witness ==
    /\ Returned /\ duc.is_stub
    /\ Len(module.body) = 2
    /\ IsForwardBase(1, 2)
    /\ ResolvedTo(module.body[1].bases[1]) = {Def(module.body[2])}

-----------------------------------------------------------------------------
(* C11: a stub that defines the builtins it uses.                          *)

\* the reads of a name of the builtins table
BuiltinReads ==
    {n \in Walk(module) : n.k = "Name" /\ n.ctx = "Load" /\ n.id \in Builtins}

\* the module binds at module level every name of the builtins table that it reads
DefinesItsBuiltins ==
    \A n \in BuiltinReads : \E i \in DOMAIN module.body : Binds(module.body[i], n.id)

\* the read is resolved after the body of the module: it is in the body of a function
\* or, in a stub, in an annotation or a class base
IsResolvedLate(n) ==
    \E m \in Walk(module) :
        \/ /\ m.k = "FunctionDef"
           /\ \/ \E i \in DOMAIN m.body : n \in Walk(m.body[i])
              \/ m.returns # None /\ n \in Walk(m.returns)
        \/ m.k = "AnnAssign" /\ n \in Walk(m.annotation)
        \/ m.k = "ClassDef" /\ \E i \in DOMAIN m.bases : n \in Walk(m.bases[i])

\* the read is in a statement of the module that follows one that binds its name
FollowsItsDefinition(n) ==
    \E i \in DOMAIN module.body :
        /\ n \in Walk(module.body[i])
        /\ \E j \in 1..(i - 1) : Binds(module.body[j], n.id)

\* the read resolved to definitions of the module alone
LinkedToModule(n) ==
    /\ ResolvedTo(n) # {}
    /\ \A d \in ResolvedTo(n) : d.kind # "builtin" /\ IsLocal(module.uid, d)

-----------------------------------------------------------------------------
(* C12: parse_import.                                                      *)

\* the path with its last n components dropped
DropLast(path, n) == IF n >= Len(path) THEN <<>> ELSE SubSeq(path, 1, Len(path) - n)

\* the components of a dotted name; a name that is empty or None has none
Components(str) == IF str = NoStr \/ str = <<>> THEN <<>> ELSE split(str)

\* the rules of the import resolver for the alias al of a statement: the origin module
\* and the imported name
ReferenceImport(call, al) ==
    LET node == call.node
        path == Components(call.modname)
        base == DropLast(path, IF call.is_package THEN node.level - 1 ELSE node.level)
        resolved == IF node.level = 0 THEN Components(node.module)
                    ELSE IF base = <<>> THEN [i \in 1..node.level |-> <<>>] \o Components(node.module)
                    ELSE base \o Components(node.module)
    IN IF node.k = "Import"
       THEN [orgmodule |-> IF al.asname = <<>> THEN Components(al.name)[1] ELSE al.name,
             orgname |-> NoStr]
       ELSE [orgmodule |-> join(resolved), orgname |-> al.name]

\* a call has returned or raised
ImportDone == kont = <<>>

\* C12: parse_import returns one entry for every alias of the statement, the one the
\* rules give for the module path, the level and the package flag, and raises
\* TypeError for a node that is neither Import nor ImportFrom
C12_ParseImport ==
    ImportDone =>
        IF module.node.k \in {"Import", "ImportFrom"}
        THEN /\ duc.raised = ""
             /\ DOMAIN duc.result = DOMAIN module.node.names
             /\ \A i \in DOMAIN module.node.names :
                    duc.result[i] = ReferenceImport(module, module.node.names[i])
        ELSE duc.raised = "TypeError"

\* C12's case happens: `from ..m import a` in the package p.q has returned origin p.m
C12_Witness ==
    /\ ImportDone
    /\ module.node.k = "ImportFrom" /\ module.node.level = 2 /\ module.is_package
    /\ module.modname = StrOf("p.q") /\ module.node.module = StrOf("m")
    /\ duc.raised = ""
    /\ duc.result[1].orgmodule = <<"p", ".", "m">>
    /\ duc.result[1].orgname = <<"a">>

-----------------------------------------------------------------------------
(* C13: the inverter UseDefChains.                                         *)

\* the node a Def wraps, as a key of a dict: an AST node, or the value of the builtins
\* table or the string a Def that is not in self.chains wraps
NodeOf(d) == [uid |-> d.uid, kind |-> d.kind]

\* UseDefChains.__init__ without its second loop
UseDefChains_of_chains(defuses) ==
    LET values == {defuses.chains[n] : n \in DOMAIN defuses.chains}
        keys == {NodeOf(chain) : chain \in {c \in values : c.kind = "Name"}}
                    \cup {NodeOf(use) : use \in UNION {defuses.users[chain] : chain \in values}}
    IN [chains |-> [node \in keys |->
                      {chain \in values : \E use \in defuses.users[chain] : NodeOf(use) = node}]]

\* UseDefChains.__init__: self.chains maps the node of every user to the Defs it is a
\* user of, and every Name node of the chains to at least the empty list (a list in
\* the code, in the order of the two loops; kept here as the set of its elements)
UseDefChains(defuses) ==
    LET values == {defuses.chains[n] : n \in DOMAIN defuses.chains}
        builtins == {defuses._builtins[key] : key \in DOMAIN defuses._builtins}
        keys == {NodeOf(chain) : chain \in {c \in values : c.kind = "Name"}}
                    \cup {NodeOf(use) : use \in UNION {defuses.users[chain] :
                                                        chain \in values \cup builtins}}
    IN [chains |-> [node \in keys |->
                      {chain \in values \cup builtins :
                          \E use \in defuses.users[chain] : NodeOf(use) = node}]]

\* the def-to-user edges of the chains of an analyzer: a Def of self.chains or of the
\* builtins table, and one of its users
DefUseEdges(defuses) ==
    UNION {{<<d, user>> : user \in defuses.users[d]} :
              d \in {defuses.chains[n] : n \in DOMAIN defuses.chains}
                      \cup {defuses._builtins[key] : key \in DOMAIN defuses._builtins}}

\* inverting again: for every node n of the inverter and every Def d listed for n, the
\* Def of n in the chains is a user of d
Reinverted(defuses, usedefs) ==
    UNION {{<<d, defuses.chains[node.uid]>> : d \in usedefs.chains[node]} :
              node \in {n \in DOMAIN usedefs.chains :
                          n.kind \notin {"builtin", "str"} /\ n.uid \in DOMAIN defuses.chains}}

\* C13: once visit_Module has returned, inverting the inverter built from the chains
\* gives exactly the def-to-user edges of the chains: none is lost, none is added
C13_RoundTrip ==
    Returned => Reinverted(duc, UseDefChains(duc)) = DefUseEdges(duc)

\* witness of C13: the analysis has returned with an edge from a builtin Def, an edge
\* from a Def of the module, and a Name that is nobody's user
C13_Witness ==
    /\ Returned
    /\ \E e \in DefUseEdges(duc) : e[1].kind = "builtin"
    /\ \E e \in DefUseEdges(duc) : e[1].kind = "Name"
    /\ \E node \in DOMAIN UseDefChains(duc).chains : UseDefChains(duc).chains[node] = {}
    /\ Reinverted(duc, UseDefChains(duc)) # {}

-----------------------------------------------------------------------------
(* C14: determinism of the analysis, and the AST after it.                 *)

\* the second of the two analyzers has returned
ReturnedTwice == At("caller") /\ kont[1].first # <<>> /\ duc.raised = ""

\* the first analyzer, once it has returned
First == Last(kont).first[1]

-----------------------------------------------------------------------------
(* C15: the names of the definition maps of a scope.                       *)

RECURSIVE FramesAbove(_, _)
\* how many maps of self._definitions belong to the scopes from the i-th on
FramesAbove(s, i) ==
    IF i > Len(s._scope_depths) THEN 0 ELSE FramesAbove(s, i + 1) - s._scope_depths[i]

\* the definition maps of the i-th scope of self._scopes, as self._scope_depths
\* cuts self._definitions
ScopeFrames(s, i) ==
    {s._definitions[j] : j \in {m \in DOMAIN s._definitions :
        /\ m > Len(s._definitions) - FramesAbove(s, i)
        /\ m <= Len(s._definitions) - FramesAbove(s, i + 1)}}

\* the names a scope may bind by the statement of the claim: its precomputed locals,
\* the wildcard, and the names declared global
Precomputed(s, i) ==
    s._precomputed_locals[i] \cup {"*"} \cup UNION {s._globals[j] : j \in DOMAIN s._globals}

ScopeNode(sc) == CHOOSE n \in Walk(module) : n.uid = sc.uid

\* the names the code binds in a scope of its own accord: the builtins in the module,
\* __class__ in a class, the parameters in a function or a lambda
Implicit(s, i) ==
    LET sc == s._scopes[i]
    IN CASE sc.k = "Module" -> DOMAIN s._builtins
         [] sc.k = "ClassDef" -> {"__class__"}
         [] sc.k \in {"FunctionDef", "Lambda"} ->
                {ScopeNode(sc).args[a].id : a \in DOMAIN ScopeNode(sc).args}
         [] OTHER -> {}

\* the names the pre-scan of a scope sets aside: those its nonlocal and global
\* statements declare
SetAside(sc) ==
    CollectGeneric([Locals |-> {}, NonLocals |-> {}], Children(ScopeNode(sc)), 1).NonLocals

\* the names the global statements of the whole module declare
GlobalNames == UNION {Range(n.names) : n \in {m \in Walk(module) : m.k = "Global"}}

\* the names bound in a scope from elsewhere: in the module those any scope declares
\* global, in a scope that is no comprehension the targets of the assignment
\* expressions its comprehensions hold
FromElsewhere(s, i) ==
    (IF i = 1 THEN GlobalNames ELSE {})
        \cup {b.name : b \in {h \in Hoisted : h.hoist.uid = s._scopes[i].uid}}

-----------------------------------------------------------------------------
(* C16: the Defs of the builtins table.                                    *)

\* the Defs of the builtins table of an analyzer
BuiltinDefs(s) == {s._builtins[key] : key \in DOMAIN s._builtins}

\* the second analyzer has been constructed and has not started its visit
SecondIsFresh == At("visit_Module") /\ Last(kont).first # <<>>

\* C16: in both runs every Def of the builtins table is live at every step, whatever
\* the module rebinds, and the second analyzer starts with builtin Defs of its own:
\* live and without users, whatever users the first analyzer gave to its builtin Defs
C16_BuiltinDefs ==
    /\ \A d \in BuiltinDefs(duc) : duc.islive[d]
    /\ SecondIsFresh =>
          /\ \A d \in BuiltinDefs(duc) : duc.users[d] = {}
          /\ \A d \in BuiltinDefs(First) : First.islive[d]

\* witness of C16: the second analyzer is about to start on a module that rebinds a
\* builtin name, and the first analyzer has given users to its Def of that builtin
C16_Witness ==
    /\ SecondIsFresh
    /\ \E d \in BuiltinDefs(First) :
          /\ First.users[d] # {}
          /\ \E n \in DOMAIN First.chains :
                /\ First.chains[n].kind = "Name" /\ First.chains[n].name = d.name
                /\ \E scope \in DOMAIN First.locals : InLocals(First, [uid |-> scope], First.chains[n])

-----------------------------------------------------------------------------
(* C17: every queued body is analysed, once.                               *)

\* C17: when visit_Module returns, every function or lambda that its declaration step
\* queued in self._defered has had its definition step, and none is queued, and so
\* run, twice
C17_EveryBodyRunsOnce ==
    Returned =>
        \A i \in DOMAIN duc._defered :
            /\ HasRun(duc._defered[i].node)
            /\ \A j \in DOMAIN duc._defered :
                  duc._defered[j].node.uid = duc._defered[i].node.uid => j = i

-----------------------------------------------------------------------------
(* C18: the stacks of the scopes.                                          *)

\* entry i of the scopes, depths and precomputed-locals stacks describe one scope, and
\* the definitions stack holds the frames the depths count
Parallel(s) ==
    /\ Len(s._scope_depths) = Len(s._scopes)
    /\ Len(s._precomputed_locals) = Len(s._scopes)
    /\ \A i \in DOMAIN s._scopes :
          /\ s._scope_depths[i] <= -1
          /\ s._precomputed_locals[i] = collect_locals(ScopeNode(s._scopes[i]))
    /\ Len(s._definitions) = FramesAbove(s, 1)

\* entry i of the globals stack describes the i-th scope too
GlobalsParallel(s) ==
    /\ Len(s._globals) = Len(s._scopes)
    /\ \A i \in DOMAIN s._scopes :
          i \in DOMAIN s._globals => s._globals[i] \subseteq SetAside(s._scopes[i])

-----------------------------------------------------------------------------
(* C19: dead code.                                                         *)

\* the statement lists being visited in which a break, continue or raise statement has
\* been visited and a later statement handed to visit
DeadLists ==
    {p \in DOMAIN kont :
        /\ kont[p].op = "process_body"
        /\ \E j \in 1..(kont[p].i - 1) : kont[p].stmts[j].k \in {"Break", "Continue", "Raise"}}

\* the definition frames of the stack, by content
FrameContents(s) ==
    [i \in DOMAIN s._definitions |->
        [name \in Keys(s, s._definitions[i]) |-> Get(s, s._definitions[i], name)]]

\* a call of one of the four functions that install definitions, in the current state,
\* leaves the frames as they are
Suppressed(name, d) ==
    /\ FrameContents(set_definition(duc, name, {d}, -1)) = FrameContents(duc)
    /\ FrameContents(extend_definition(duc, name, {d})) = FrameContents(duc)
    /\ FrameContents(extend_global(duc, name, {d})) = FrameContents(duc)
    /\ FrameContents(set_or_extend_global(duc, name, d)) = FrameContents(duc)

\* the counter is the number of statement lists that are past such a statement: it is
\* positive to the end of the list, and back to its former value when the list ends
DeadCounter ==
    kont # <<>> \/ duc.raised = "" => duc._deadcode = Cardinality(DeadLists)

\* a statement visited in dead code, other than break and continue, which hand the
\* frame over to the loop, and the compound statements, which open frames
IsDeadVisit ==
    /\ kont # <<>> /\ kont[1].op = "visit"
    /\ kont[1].node.k \in {"Expr", "Assign", "AugAssign", "AnnAssign", "Return", "Raise",
                           "Global", "Nonlocal", "Import", "ImportFrom", "FunctionDef"}
    /\ duc._deadcode > 0

\* C19: from a break, continue or raise statement to the end of its statement list the
\* counter is positive, and it is back to its former value when the list ends; while
\* it is positive the four functions leave every definition frame unchanged, and so
\* does the visit of a statement that installs definitions through them
C19_DeadCode ==
    /\ [](DeadCounter /\ (duc._deadcode > 0 =>
                            \A name \in {"x", "len"} : \A d \in DOMAIN duc.users :
                                Suppressed(name, d)))
    /\ [][IsDeadVisit => FrameContents(duc)' = FrameContents(duc)]_vars

\* witness of C19: an assignment, the last statement of its list, is about to be
\* visited in dead code, and the current frame holds a definition
C19_Witness ==
    /\ AtStmt("Assign")
    /\ duc._deadcode = 1
    /\ DeadLists = {2}
    /\ kont[2].i = Len(kont[2].stmts)
    /\ \E name \in Keys(duc, FrameAt(duc, -1)) : Get(duc, FrameAt(duc, -1), name) # {}

-----------------------------------------------------------------------------
(* C20: names read in a loop before they are bound.                        *)

\* the loops among the statements of the module
ModuleLoops == {module.body[i] : i \in {j \in DOMAIN module.body :
                                            module.body[j].k \in {"For", "While"}}}

\* the analyzer warned that the read r is unbound
Warned(r) ==
    \E w \in DOMAIN duc.warnings :
        duc.warnings[w].msg = "unbound identifier" /\ duc.warnings[w].uid = r.uid

\* statement j of the body of a loop of the module binds the name that the read r of
\* an earlier statement k reads; it is executed, and the only statement of the body
\* that binds that name
ReadBeforeBound(loop, k, j, r) ==
    /\ k < j
    /\ r \in ReadsOf(loop.body[k], r.id)
    /\ Binds(loop.body[j], r.id)
    /\ Executed(loop.body, j)
    /\ \A l \in DOMAIN loop.body : l # j => ~MayBind(loop.body[l], r.id)

\* C20: when the analysis of a module has returned, a name read in the body of a loop
\* before the statement of that body that binds it has given no unbound-identifier
\* warning and the Def of the binding has the read as a user, whatever break or
\* continue statements the body holds; a read in a loop of a name that the module
\* binds nowhere, and that is no builtin, has given the warning
C20_LoopUndefs ==
    Returned /\ NoWildcardImport =>
        \A loop \in ModuleLoops :
            /\ \A k \in DOMAIN loop.body : \A j \in DOMAIN loop.body :
                  \A r \in {n \in Walk(loop.body[k]) : n.k = "Name"} :
                      ReadBeforeBound(loop, k, j, r) =>
                          /\ ~Warned(r)
                          /\ Def(r) \in duc.users[Def(Binder(loop.body[j]))]
            /\ \A k \in DOMAIN loop.body :
                  \A r \in {n \in Walk(loop.body[k]) : n.k = "Name"} :
                      /\ r \in ReadsOf(loop.body[k], r.id)
                      /\ r.id \notin Builtins
                      /\ \A i \in DOMAIN module.body : ~MayBind(module.body[i], r.id)
                      => Warned(r)

-----------------------------------------------------------------------------
(* C21: the join of a loop.                                                *)

\* the Defs of the name that reach the end of a list of statements: that of the last
\* direct binding executed, or else the Defs that reached the list
ReachingOr(stmts, name, before) ==
    IF Reaching(stmts, name) # {} THEN Reaching(stmts, name) ELSE before

RECURSIVE AtExits(_, _, _)
\* Defs of the name that are live at a break or a continue statement of the loop whose
\* body, or a block of whose body, is stmts; `before` are the Defs that reach the list.
\* A break in the else clause of an inner loop leaves the loop around it.
AtExits(stmts, name, before) ==
    UNION {LET here == ReachingOr(SubSeq(stmts, 1, j - 1), name, before)
           IN CASE stmts[j].k \in {"Break", "Continue"} -> here
                [] stmts[j].k = "If" ->
                      AtExits(stmts[j].body, name, here) \cup AtExits(stmts[j].orelse, name, here)
                [] stmts[j].k \in {"For", "While"} -> AtExits(stmts[j].orelse, name, here)
                [] OTHER -> {}
           : j \in {i \in DOMAIN stmts : Executed(stmts, i)}}

\* C21 speaks of the loop stmts[i] and the name: the statements before it bind the
\* name directly
IsLoopJoin(stmts, i, name) ==
    /\ i \in DOMAIN stmts
    /\ stmts[i].k \in {"For", "While"}
    /\ Executed(stmts, i)
    /\ BindDirectly(SubSeq(stmts, 1, i - 1), name)

\* the Defs of the name that reached the loop stmts[i]
AtEntry(stmts, i, name) == Reaching(SubSeq(stmts, 1, i - 1), name)

\* Defs C21 says the name holds after the loop stmts[i]: those that reached the loop,
\* those at the end of the body, at the breaks and the continues, at the end of the else
AfterLoop(stmts, i, name) ==
    AtEntry(stmts, i, name)
        \cup Reaching(stmts[i].body, name)
        \cup AtExits(stmts[i].body, name, AtEntry(stmts, i, name))
        \cup Reaching(stmts[i].orelse, name)

\* the unbound-identifier warnings given for the read r
Warnings(r) ==
    {w \in DOMAIN duc.warnings :
        duc.warnings[w].msg = "unbound identifier" /\ duc.warnings[w].uid = r.uid}

\* the reads, in the statements of the body of a loop of the module, of a name that
\* nothing binds and that is no builtin: each analysis of the body warns once of each
UnboundReads(loop) ==
    UNION {{r \in ReadsOf(loop.body[k], "x") \cup ReadsOf(loop.body[k], "y") :
                /\ Executed(loop.body, k)
                /\ r.id \notin Builtins
                /\ \A i \in DOMAIN module.body : ~MayBind(module.body[i], r.id)}
           : k \in DOMAIN loop.body}

\* C21: after a loop a name holds the Defs that reached the loop, those live at the end
\* of its body, at each break and each continue of it, and at the end of its else
\* clause; the Defs that reached the loop are still live; a read that follows the loop
\* resolves to all of them; and the body has been analysed exactly twice (an unbound
\* read of the body has been warned of twice)
C21_LoopJoin ==
    \A name \in {"x", "y"} :
        /\ At("process_body") /\ kont[1].stmts \in Bodies
                /\ IsLoopJoin(kont[1].stmts, kont[1].i, name)
                /\ duc._deadcode = 0
            => /\ AfterLoop(kont[1].stmts, kont[1].i, name)
                        \subseteq Get(duc, FrameAt(duc, -1), name)
               /\ \A d \in AtEntry(kont[1].stmts, kont[1].i, name) : duc.islive[d]
        /\ Returned /\ NoWildcardImport =>
            \A i \in 1..(Len(module.body) - 1) :
                IsLoopJoin(module.body, i, name) =>
                    /\ \A r \in ReadsOf(module.body[i + 1], name) :
                            AfterLoop(module.body, i, name) \subseteq ResolvedTo(r)
                    /\ \A r \in UnboundReads(module.body[i]) : Cardinality(Warnings(r)) = 2

-----------------------------------------------------------------------------
(* C22: the reach of a global statement.                                   *)

\* the statements of the scope whose node has the uid given: none for a lambda or a
\* comprehension
ScopeBody(uid) ==
    LET node == CHOOSE n \in Walk(module) : n.uid = uid
    IN IF node.k \in {"Module", "FunctionDef", "ClassDef"} THEN node.body ELSE <<>>

\* the scope a binding site binds in
BindScope(b) == IF b.role = "walrus" THEN b.hoist.uid ELSE b.scope

\* a global statement of the scope the site binds in declares its name
DeclaredHere(b) == b.name \in DeclaredIn(ScopeBody(BindScope(b)))

\* the definition map self._definitions[0]: the first map the analyzer creates
ModuleFrame == 1

\* no statement of the module is dead code
NoDeadCode == \A n \in Walk(module) : n.k \notin {"Break", "Continue", "Raise"}

\* the statement of the module the node with the uid given is part of
TopIndex(uid) ==
    CHOOSE j \in DOMAIN module.body : \E n \in Walk(module.body[j]) : n.uid = uid

\* the writes of C22 for a site whose name its scope declares global: the Def is in
\* frame 0 (where no later statement of the module itself replaces it), in no locals
\* but the module's, not in the module's when a statement of the module has bound the
\* name before, and in the module's when nothing else binds it
RoutedToModule(b, d) ==
    /\ BindScope(b) # module.uid => d \in Get(duc, ModuleFrame, b.name)
    /\ OnlyModuleLocal(d)
    /\ (\E j \in 1..(TopIndex(b.uid) - 1) : Binds(module.body[j], b.name))
            => ~IsLocal(module.uid, d)
    /\ b.name \notin Builtins /\ (\A c \in BindingSites : c.name = b.name => c.uid = b.uid)
            => IsLocal(module.uid, d)

\* the normal rule for a site: the Def is a local of the scope the site is in, and of
\* that scope alone
BoundLocally(b, d) ==
    /\ IsLocal(b.scope, d)
    /\ b.scope # module.uid => ~IsLocal(module.uid, d)

\* the reads of the name that the statements of a scope make
DirectReads(stmts, name) == UNION {ReadsOf(stmts[k], name) : k \in DOMAIN stmts}

\* C22: a global statement routes the name in the scope that declares it, and there
\* alone.  A site whose name its own scope declares global has its Def in frame 0 and
\* in no locals but, when the name was absent from frame 0, the module's; no
\* definition map of the declaring scope ever holds that Def; a read of the name in the
\* declaring scope resolves to Defs of frame 0.  A site of any other scope is bound
\* by the normal rule, whatever an enclosing scope or the module declares.
C22_GlobalRouting ==
    /\ \A i \in 2..Len(duc._scopes) : \A f \in ScopeFrames(duc, i) :
          \A n \in Keys(duc, f) : \A d \in Get(duc, f, n) :
              ~\E b \in BindingSites :
                    /\ IsASTDef(d) /\ b.uid = d.uid
                    /\ BindScope(b) = duc._scopes[i].uid
                    /\ DeclaredHere(b)
    /\ Returned /\ NoDeadCode =>
          /\ \A b \in BindingSites :
                /\ DeclaredHere(b) => RoutedToModule(b, duc.chains[b.uid])
                /\ ~DeclaredHere(b) /\ b.role \in {"store", "param", "alias", "def"}
                        => BoundLocally(b, duc.chains[b.uid])
          /\ \A scope \in {n \in Walk(module) : n.k \in {"FunctionDef", "ClassDef"}} :
                \A name \in DeclaredIn(scope.body) :
                    \A r \in DirectReads(scope.body, name) :
                        ResolvedTo(r) \subseteq Get(duc, ModuleFrame, name) \cup {Undef(r)}

-----------------------------------------------------------------------------
(* C23: what a nonlocal statement finds.                                   *)

\* self.visit of a nonlocal statement has just returned to process_body, outside
\* dead code
JustDeclared ==
    /\ At("process_body") /\ kont[1].i >= 1
    /\ kont[1].stmts[kont[1].i].k = "Nonlocal"
    /\ duc._deadcode = 0

\* the scopes around the current one that are neither a class nor the module
EnclosingFunctions ==
    {duc._scopes[i].uid : i \in {j \in 1..(Len(duc._scopes) - 1) :
                                    duc._scopes[j].k \notin {"ClassDef", "Module"}}}

\* the binding sites of the name in the scopes around the current one that are neither
\* a class nor the module
OuterSites(name) ==
    {b \in BindingSites : b.name = name /\ BindScope(b) \in EnclosingFunctions}

\* C23: after a nonlocal statement the current frame holds for the name only Defs of
\* bindings of enclosing scopes that are no class and not the module (no Def of a class
\* body, of the module, of the builtins); when no such scope binds the name, the
\* statement has given the unbound-identifier warning
C23_Nonlocal ==
    JustDeclared =>
        LET node == kont[1].stmts[kont[1].i]
        IN \A name \in Range(node.names) :
              /\ \A d \in Get(duc, FrameAt(duc, -1), name) :
                    \E b \in OuterSites(name) : IsASTDef(d) /\ d.uid = b.uid
              /\ OuterSites(name) = {} =>
                    \E w \in DOMAIN duc.warnings :
                        duc.warnings[w] = [msg |-> "unbound identifier", uid |-> node.uid]

-----------------------------------------------------------------------------
(* C24: a read before the assignment.                                      *)

\* the binding sites of the name that bind in the scope with the uid given, the name
\* being none that the scope declares global
LocalSites(uid, name) ==
    {b \in BindingSites : b.name = name /\ BindScope(b) = uid /\ ~DeclaredHere(b)}

\* the names the nonlocal statements of a list declare
DeclaredNonlocal(stmts) ==
    UNION {Range(n.names) : n \in {m \in UNION {Walk(stmts[i]) : i \in DOMAIN stmts} :
                                        m.k = "Nonlocal"}}

\* the reads of a name in the statements of the body of a function or class that the
\* scope binds somewhere
LocalReads(scope) ==
    UNION {{r \in ReadsOf(scope.body[k], "x") \cup ReadsOf(scope.body[k], "len") :
                /\ LocalSites(scope.uid, r.id) # {}
                /\ r.id \notin DeclaredNonlocal(scope.body)}
           : k \in DOMAIN scope.body}

\* the read r is of a simple statement of the body that no binding of the name comes
\* before: no statement before it, no parameter
ReadFirst(scope, r) ==
    \E k \in DOMAIN scope.body :
        /\ IsDirect(scope.body[k])
        /\ r \in ReadsOf(scope.body[k], r.id)
        /\ scope.body[k].k # "AugAssign"
        /\ \A j \in 1..(k - 1) : ~MayBind(scope.body[j], r.id)
        /\ scope.k = "FunctionDef" => \A a \in DOMAIN scope.args : scope.args[a].id # r.id

\* the Defs of the module for the name when the body of the scope is analysed: those of
\* the sites of the module, and the builtin
ModuleDefs(name) ==
    {duc.chains[b.uid] : b \in {c \in BindingSites : c.name = name /\ BindScope(c) = module.uid}}
        \cup {BuiltinDef(key) : key \in Builtins \cap {name}}

\* a statement of the module binds the name before the body of the scope is analysed:
\* before the class, or anywhere when the scope is in a function, which is deferred
BoundByModule(scope, name) ==
    \/ name \in Builtins
    \/ \E j \in DOMAIN module.body :
          /\ Binds(module.body[j], name) /\ Executed(module.body, j)
          /\ j < TopIndex(scope.uid) \/ module.body[TopIndex(scope.uid)].k = "FunctionDef"

\* the reads a comprehension makes in its conditions
ComprehensionReads(comp) ==
    UNION {UNION {{r \in Walk(comp.generators[g].ifs[c]) : r.k = "Name" /\ r.ctx = "Load"}
                  : c \in DOMAIN comp.generators[g].ifs}
           : g \in DOMAIN comp.generators}

\* C24: a read, in a function or a comprehension, of a name that the scope binds
\* resolves to no Def of another scope and to no builtin, and when no binding comes
\* before it there is a placeholder Def for it and an unbound-identifier warning.  In
\* a class body a read of a name that the class binds later and the module (or the
\* builtins table) defines resolves to Defs of the module, or to the builtin, without
\* a warning.
C24_ReadBeforeAssignment ==
    Returned /\ NoWildcardImport /\ DeclaredIn(module.body) = {} =>
        /\ \A scope \in {n \in Walk(module) : n.k = "FunctionDef"} :
              \A r \in LocalReads(scope) :
                  /\ \A d \in ResolvedTo(r) :
                        d = Undef(r) \/ \E b \in LocalSites(scope.uid, r.id) : b.uid = d.uid
                  /\ ReadFirst(scope, r) =>
                        /\ ResolvedTo(r) = {Undef(r)}
                        /\ Warned(r)
        /\ \A comp \in {n \in Walk(module) : n.k = "ListComp" /\ n.uid \in DOMAIN duc.chains} :
              \A r \in ComprehensionReads(comp) :
                  /\ LocalSites(comp.uid, r.id) # {}
                  /\ \A g \in DOMAIN comp.generators :
                        r \in Walk(comp.generators[g]) =>
                            \A h \in 1..g : comp.generators[h].target.id # r.id
                  => ResolvedTo(r) = {Undef(r)} /\ Warned(r)
        /\ \A scope \in {n \in Walk(module) : n.k = "ClassDef"} :
              \A r \in LocalReads(scope) :
                  ReadFirst(scope, r) /\ BoundByModule(scope, r.id) =>
                      /\ ResolvedTo(r) # {}
                      /\ ResolvedTo(r) \subseteq ModuleDefs(r.id)
                      /\ ~Warned(r)

-----------------------------------------------------------------------------
(* Calls of lookup_annotation_name_defs(name, heads, locals_map).          *)

\* the longest list of heads of a call
MaxHeads == 4

\* the scopes below the module: a function, a class, a type-parameter scope
HeadKinds == {"FunctionDef", "ClassDef", "def695"}

\* heads[0] is the module, heads[-1] the direct scope
HeadsOf(kinds) ==
    [i \in 1..(Len(kinds) + 1) |->
        IF i = 1 THEN [uid |-> 0, k |-> "Module"] ELSE [uid |-> i - 1, k |-> kinds[i - 1]]]

\* the Defs a scope can hold of a name: one that is live, one that was killed
LocalDef(scope, name, n) == [uid |-> 10 * scope + n, kind |-> "Name", name |-> name, v |-> 0]

\* the locals of a scope: another name only, or besides it a live Def of the name,
\* a killed one, or a killed one and then a live one
LocalsHolding(scope, name, what) ==
    CASE what = "none" -> <<LocalDef(scope, "z", 3)>>
      [] what = "live" -> <<LocalDef(scope, "z", 3), LocalDef(scope, name, 1)>>
      [] what = "dead" -> <<LocalDef(scope, name, 2), LocalDef(scope, "z", 3)>>
      [] what = "both" -> <<LocalDef(scope, name, 2), LocalDef(scope, name, 1)>>

\* a call: the name, the scopes below the module and what every scope holds of the name
LookupCall(name, kinds, holds) ==
    [name |-> name, heads |-> HeadsOf(kinds),
     locals |-> [scope \in 0..Len(kinds) |-> LocalsHolding(scope, name, holds[scope + 1])],
     islive |-> [d \in {LocalDef(scope, nm, n) : scope \in 0..Len(kinds),
                            nm \in {name, "z"}, n \in 1..3} |-> d.uid % 10 # 2]]

\* a call is about to be made: `module` holds its arguments; the name is a builtin or
\* not, and every scope of heads has its locals
InitLookup ==
    /\ \E name \in {"y", "len"}, kinds \in SeqsOf(HeadKinds, 0, MaxHeads - 1) :
            \E holds \in [1..(Len(kinds) + 1) -> {"none", "live", "dead", "both"}] :
                module = LookupCall(name, kinds, holds)
    /\ duc = None
    /\ kont = <<[op |-> "lookup_annotation_name_defs"]>>

\* the call: `duc` holds the Defs it returns or the LookupError it raises
lookup_annotation_name_defs_call ==
    /\ At("lookup_annotation_name_defs")
    /\ duc' = lookup_annotation_name_defs([locals |-> module.locals, islive |-> module.islive],
                                          module.name, module.heads)
    /\ Pop
    /\ UNCHANGED module

NextLookup == lookup_annotation_name_defs_call

SpecLookup == InitLookup /\ [][NextLookup]_vars

-----------------------------------------------------------------------------
(* C25: the order in which an annotation name is looked up.                *)

\* the call has returned or raised
LookupDone == kont = <<>>

\* the locals of a scope that have the name of the call and are live, or are not
Matching(call, scope, live) ==
    {d \in Range(call.locals[scope.uid]) : d.name = call.name /\ call.islive[d] = live}

\* direct scope, then the closed enclosing scopes from the innermost, then the module;
\* a class is skipped unless it is the outer scope of a direct type-parameter scope
DirectFirst(heads) ==
    LET n == Len(heads)
        withclass == n >= 3 /\ heads[n].k = "def695" /\ heads[n - 1].k = "ClassDef"
        inner == IF withclass THEN <<heads[n], heads[n - 1]>> ELSE <<heads[n]>>
        enclosing == {i \in 2..(n - Len(inner)) : heads[i].k \notin {"ClassDef", "Module"}}
        outwards == SelectSeq(Reverse(heads), LAMBDA h : \E i \in enclosing : heads[i] = h)
    IN IF n = 1 THEN heads ELSE inner \o outwards \o <<heads[1]>>

\* the same order, with the module scope first unless the direct scope is a
\* type-parameter scope
ModuleFirst(heads) ==
    LET order == DirectFirst(heads)
    IN IF Len(heads) = 1 \/ Last(heads).k = "def695" THEN order
       ELSE <<heads[1]>> \o Front(order)

\* the live matching locals of the first scope of the order that has any
FirstLive(call, order) ==
    LET hits == {i \in DOMAIN order : Matching(call, order[i], TRUE) # {}}
    IN IF hits = {} THEN {}
       ELSE Matching(call, order[CHOOSE i \in hits : \A j \in hits : i <= j], TRUE)

\* the call answers with the Defs found along the order, and raises when there are none
AnswersAlong(order) ==
    IF FirstLive(module, order) # {}
    THEN duc.error = "" /\ duc.defs = FirstLive(module, order)
    ELSE duc.error # "" /\ duc.defs = {}

\* C25 as stated: lookup_annotation_name_defs searches the direct scope first, then the
\* closed enclosing scopes from the innermost to the outermost, and the module scope
\* last, and returns the live matching locals of the first scope that has any
C25_ModuleLast == LookupDone => AnswersAlong(DirectFirst(module.heads))

\* C25, amended: lookup_annotation_name_defs searches the module scope first, then the
\* direct scope, then the closed enclosing scopes from the innermost to the outermost
\* - unless the direct scope is a type-parameter scope: then the direct scope, its outer
\* scope when that is a class, the closed enclosing scopes and the module scope last -
\* and returns the live matching locals of the first scope that has any
C25_ModuleFirst == LookupDone => AnswersAlong(ModuleFirst(module.heads))

\* witness of C25: under a function, a class and a function, the module and the direct
\* scope both hold a live Def of the name, and the call has returned the module's
C25_Witness ==
    /\ LookupDone
    /\ module.name = "y"
    /\ module.heads = HeadsOf(<<"FunctionDef", "ClassDef", "FunctionDef">>)
    /\ Matching(module, module.heads[1], TRUE) = {LocalDef(0, "y", 1)}
    /\ Matching(module, module.heads[4], TRUE) = {LocalDef(3, "y", 1)}
    /\ duc.defs = {LocalDef(0, "y", 1)}
    /\ duc.error = ""

-----------------------------------------------------------------------------
(* C26: the three ways the lookup of an annotation name fails.             *)

\* the scopes the call searches
Searched == Range(ModuleFirst(module.heads))

\* no searched scope holds a live local of the name
NoneLive == \A scope \in Searched : Matching(module, scope, TRUE) = {}

\* C26: when no searched scope holds a live local of the name, the call fails with
\* "is a builtin" when the name is a builtin, otherwise with "is killed" when at least
\* one searched scope, whichever it is, holds a local of the name that is not live,
\* otherwise with "not found"
C26_FailureSignals ==
    LookupDone /\ NoneLive =>
        /\ duc.defs = {}
        /\ duc.error =
            IF module.name \in Builtins THEN "is a builtin"
            ELSE IF \E scope \in Searched : Matching(module, scope, FALSE) # {} THEN "is killed"
            ELSE "not found"

-----------------------------------------------------------------------------
(* C27: what a comprehension resolves inside its scope and what outside.    *)

\* the lists of statements of the module
StmtLists ==
    Bodies \cup {n.body : n \in {m \in Walk(module) : m.k \in {"For", "While", "If"}}}
           \cup {n.orelse : n \in {m \in Walk(module) : m.k \in {"For", "While", "If"}}}

\* the comprehensions of the module that have been visited, and not as dead code
VisitedComprehensions ==
    {c \in Walk(module) :
        /\ c.k = "ListComp" /\ c.generators[1].uid \in DOMAIN duc.chains
        /\ \A stmts \in StmtLists : \A i \in DOMAIN stmts :
                c \in Walk(stmts[i]) => Executed(stmts, i)}

\* the reads an expression makes
Loads(e) == {n \in Walk(e) : n.k = "Name" /\ n.ctx = "Load"}

\* the Defs of the iteration variables of the first n clauses of a comprehension
TargetDefs(c, n) == {Def(c.generators[g].target) : g \in 1..n}

\* the Defs among them that have the name
TargetsNamed(c, n, name) == {d \in TargetDefs(c, n) : d.name = name}

\* a read made inside the comprehension scope, of a name the clauses before it bind,
\* resolves to iteration variables of the comprehension
ResolvedInside(c, n, r) ==
    TargetsNamed(c, n, r.id) # {} =>
        ResolvedTo(r) # {} /\ ResolvedTo(r) \subseteq TargetsNamed(c, Len(c.generators), r.id)

\* the analyzer when visit_ListComp has entered the scope of c and visit_comprehension
\* is about to visit the iterable of its first clause
AtOutermostIter(c) ==
    chains_setdefault(ScopeContext_enter(chains_setdefault(duc, c), c), c.generators[1])

\* the analyzer when that iterable has been visited
AfterOutermostIter(c) ==
    visit_outermost_iter(AtOutermostIter(c), c.generators[1], Def(c.generators[1]))

\* C27: a read of the iterable of the first clause never resolves to an iteration
\* variable of the comprehension, and resolves to the assignment of the name that the
\* enclosing body makes just before the comprehension; the reads of the conditions, of
\* the iterables of the later clauses and of the element resolve to the iteration
\* variables when the clauses before them bind the name; and when a comprehension is
\* about to be visited, visiting its first iterable leaves the four stacks and the
\* stack of global declarations as they are inside the comprehension scope
C27_ComprehensionScoping ==
    /\ Returned =>
        \A c \in VisitedComprehensions :
            /\ \A r \in Loads(c.generators[1].iter) :
                    /\ ResolvedTo(r) \cap TargetDefs(c, Len(c.generators)) = {}
                    /\ \A stmts \in Bodies : \A i \in 2..Len(stmts) :
                            /\ stmts[i].k = "Expr" /\ stmts[i].value = c
                            /\ Executed(stmts, i)
                            /\ stmts[i - 1].k = "Assign" /\ Binds(stmts[i - 1], r.id)
                            /\ IsDirect(stmts[i - 1])
                            => ResolvedTo(r) = {Def(stmts[i - 1].target)}
            /\ \A g \in DOMAIN c.generators :
                    /\ g > 1 => \A r \in Loads(c.generators[g].iter) : ResolvedInside(c, g - 1, r)
                    /\ \A j \in DOMAIN c.generators[g].ifs :
                            \A r \in Loads(c.generators[g].ifs[j]) : ResolvedInside(c, g, r)
            /\ c.elt.k # "Lambda" =>
                    \A r \in Loads(c.elt) : ResolvedInside(c, Len(c.generators), r)
    /\ AtStmt("Expr") /\ kont[1].node.value.k = "ListComp" /\ duc._deadcode = 0
            /\ validate_comprehension(kont[1].node.value) = "" =>
        /\ Stacks(AfterOutermostIter(kont[1].node.value))
                = Stacks(AtOutermostIter(kont[1].node.value))
        /\ AfterOutermostIter(kont[1].node.value)._globals
                = AtOutermostIter(kont[1].node.value)._globals
        /\ Len(AtOutermostIter(kont[1].node.value)._definitions)
                = Len(duc._definitions) + 1

-----------------------------------------------------------------------------
(* C28: what the validators reject.                                        *)

\* the assignment expressions of an expression
Walruses(e) == {n \in Walk(e) : n.k = "NamedExpr"}

\* a comprehension the compiler rejects: an assignment expression in the iterable of a
\* clause, or one whose target is an iteration variable
IsRejectedComprehension(c) ==
    /\ c.k = "ListComp"
    /\ \/ \E g \in DOMAIN c.generators : Walruses(c.generators[g].iter) # {}
       \/ \E n \in Walruses(c) : \E g \in DOMAIN c.generators :
                c.generators[g].target.k = "Name" /\ c.generators[g].target.id = n.target.id

\* the annotations of the statements of the module: of annotated assignments and of
\* what functions return
AnnotationBodies ==
    {n.annotation : n \in {m \in Walk(module) : m.k = "AnnAssign"}}
        \cup {n.returns : n \in {m \in Walk(module) : m.k = "FunctionDef" /\ m.returns # None}}

\* an annotation the compiler rejects when annotations are deferred
IsRejectedAnnotation(a) ==
    a \in AnnotationBodies /\ \E n \in Walk(a) : n.k \in {"NamedExpr", "Yield", "Await"}

\* the nodes below a node
Below(node) == Walk(node) \ {node}

\* every Def the analyzer has created or put somewhere: those of the chains, the users,
\* the definition maps and the locals
AllDefs(s) ==
    Range(s.chains) \cup DOMAIN s.users
        \cup UNION {UNION {Get(s, f, name) : name \in Keys(s, f)} : f \in DOMAIN s.frames}
        \cup UNION {Range(s.locals[scope]) : scope \in DOMAIN s.locals}

\* the warnings given for a node
WarningsAt(s, node) == {w \in DOMAIN s.warnings : s.warnings[w].uid = node.uid}

\* a visit that went from the analyzer s to the analyzer t rejected the node: one warning
\* more, which is for the node, no exception, the stacks as they were, no frame and no
\* set of Defs created, no annotation put on the queue, and nothing in the chains, the
\* definition maps and the locals for a node below it
RejectedBy(s, t, node) ==
    /\ Len(t.warnings) = Len(s.warnings) + 1
    /\ Last(t.warnings).uid = node.uid
    /\ t.raised = ""
    /\ Stacks(t) = Stacks(s) /\ t._globals = s._globals
    /\ Len(t.frames) = Len(s.frames) /\ t.osets = s.osets
    /\ t._defered_annotations = s._defered_annotations /\ t._defered = s._defered
    /\ \A d \in AllDefs(t) : \A n \in Below(node) : d.uid # n.uid

\* C28 for the states of the analyzer: when a statement that is a rejected comprehension
\* is about to be visited, the visit rejects it; when a statement whose annotation is
\* rejected is about to be visited and `deferred` admits the mode, visiting the
\* annotation rejects it; and when visit_Module has returned, no node below a rejected
\* node has a Def anywhere
Rejects(deferred) ==
    /\ AtStmt("Expr") /\ IsRejectedComprehension(kont[1].node.value) /\ duc._deadcode = 0 =>
            RejectedBy(duc, visit_expr(duc, kont[1].node.value).s, kont[1].node.value)
    /\ AtStmt("AnnAssign") /\ IsRejectedAnnotation(kont[1].node.annotation) /\ duc._deadcode = 0
            /\ (deferred => duc.future_annotations) =>
            RejectedBy(duc, visit_annotation(duc, kont[1].node.annotation),
                       kont[1].node.annotation)
    /\ Returned =>
        \A node \in Walk(module) :
            \/ IsRejectedComprehension(node)
            \/ IsRejectedAnnotation(node) /\ (deferred => duc.future_annotations)
            => /\ \A d \in AllDefs(duc) : \A n \in Below(node) : d.uid # n.uid
               /\ WarningsAt(duc, node) # {}

-----------------------------------------------------------------------------
(* C29: the assignment expressions of a class body.                        *)

\* the targets of assignment expressions whose first enclosing scope that is no
\* comprehension is a class
ClassWalruses ==
    {b \in BindingSites : b.role = "walrus" /\ b.hoist.k = "ClassDef" /\ b.uid \in DOMAIN duc.chains}

\* the Def is in a definition map
Installed(d) == \E f \in DOMAIN duc.frames : \E name \in Keys(duc, f) : d \in Get(duc, f, name)

\* the Def is in a locals list
InSomeLocals(d) == \E scope \in DOMAIN duc.locals : IsLocal(scope, d)

\* C29: once the target of an assignment expression has been visited whose first
\* enclosing scope that is no comprehension is a class, there is a warning for the
\* target, its Def is in no definition map and it is in no locals list
C29_ClassBodyWalrus ==
    \A b \in ClassWalruses :
        /\ WarningsAt(duc, b) # {}
        /\ ~Installed(TargetDef(b))
        /\ ~InSomeLocals(TargetDef(b))

-----------------------------------------------------------------------------
(* C30: the Defs of a node.                                                *)

\* the Defs the buffers of undefined names hold
Buffered(s) ==
    UNION {UNION {{s._undefs[i][name][j].undef : j \in DOMAIN s._undefs[i][name]} :
                    name \in DOMAIN s._undefs[i]} : i \in DOMAIN s._undefs}

\* the Defs that hold users, are a user of a Def, or sit in a definition map, a locals
\* list or a buffer of undefined names
Referenced(s) ==
    {d \in DOMAIN s.users : s.users[d] # {}}
        \cup UNION {s.users[d] : d \in DOMAIN s.users}
        \cup UNION {UNION {Get(s, f, name) : name \in Keys(s, f)} : f \in DOMAIN s.frames}
        \cup UNION {Range(s.locals[scope]) : scope \in DOMAIN s.locals}
        \cup Buffered(s)

\* a Def of the builtins table, or the Def of __class__ that visit_ClassDef makes up
IsSynthetic(d) == d.kind \in {"builtin", "str"}

\* C30: at every step, no two Defs have been created for one AST node, and every Def
\* that holds users, is a user, or sits in a definition map, a locals list or a buffer of
\* undefined names is the Def that chains holds for its node, unless it is a builtin Def
\* or the Def of __class__; so is the placeholder of a read that finds no definition
C30_OneDefPerNode ==
    /\ \A d1, d2 \in DOMAIN duc.users :
            ~IsSynthetic(d1) /\ ~IsSynthetic(d2) /\ d1.uid = d2.uid => d1 = d2
    /\ \A d \in Referenced(duc) :
            ~IsSynthetic(d) => d.uid \in DOMAIN duc.chains /\ duc.chains[d.uid] = d
====
